---------------------------- MODULE Spec2Model ----------------------------
(***************************************************************************)
(* Tree compensation subsystem of the catalog generator:                   *)
(*   compensation/agent.py         CompensationReActAgent (repair loop)    *)
(*   compensation/orchestrator.py  CompensationOrchestrator                *)
(*   compensation/tools.py         GetDefaultTemplateTool,                 *)
(*                                 UpdateNodeCategoryTool                  *)
(*                                                                         *)
(* JSON values are tagged records, so that values of different Python      *)
(* types can be compared:                                                  *)
(*   None -> [t |-> "null"]        str  -> [t |-> "str",  s |-> ...]       *)
(*   int  -> [t |-> "num", n ..]   list -> [t |-> "list", items |-> <<>>]  *)
(*   dict -> [t |-> "dict", m |-> function from its keys to its values]    *)
(***************************************************************************)
EXTENDS Integers, Sequences, FiniteSets, TLC

VARIABLES
    extraction_result,  \* the caller's forest, as passed to CompensationOrchestrator.run
    pc,                 \* position of the run: "idle", "start", "calling", "done", "raised"
    iteration,          \* agent.run: loop variable of `for iteration in range(1, 11)`
    attempt,            \* _call_llm_non_streaming: loop variable `attempt` (0: no call in flight)
    calls,              \* number of _call_llm_non_streaming invocations made by agent.run
    messages,           \* agent.run: the conversation history
    response,           \* agent.run: the backend response being handled (last received)
    current_structure,  \* agent.run: the controller's working structure
    tool_runs,          \* number of _execute_tool invocations
    events,             \* number of non-terminal responses other than a plain "continue"
    result,             \* what CompensationOrchestrator.run returned (NoResult before)
    exc,                \* the exception that left CompensationOrchestrator.run ("none" if none)
    candidate,          \* argument of a stand-alone _validate_structure call
    errors,             \* its return value, as the list of error lines
    vpc,                \* position of the stand-alone call: "off", "ready", "validated"
    upd_in,             \* arguments of a stand-alone UpdateNodeCategoryTool.run call
    upd_out,            \* its outcome (return value, or the exception raised)
    upc,                \* position of that call: "off", "ready", "returned", "raised"
    heap,               \* the list and dict objects of a stand-alone classifier call
    cls_in,             \* classify_and_split's argument compensated_structure
    cls_out,            \* its return value (the three views), or the exception raised
    cls_again,          \* outcome of extract_view applied to one of the returned views
    cpc,                \* position: "off", "ready", "split", "raised", "again"
    mem,                \* the list and dict objects of two runs of agent.run in one process
    runs,               \* the local variables of each of the two runs
    pevents             \* number of responses handled by the two runs that count against PairMaxEvents

vars == <<extraction_result, pc, iteration, attempt, calls, messages, response,
          current_structure, tool_runs, events, result, exc, candidate, errors, vpc,
          upd_in, upd_out, upc, heap, cls_in, cls_out, cls_again, cpc,
          mem, runs, pevents>>

runVars == <<extraction_result, pc, iteration, attempt, calls, messages, response,
             current_structure, tool_runs, events, result, exc>>

valVars == <<candidate, errors, vpc>>

updVars == <<upd_in, upd_out, upc>>

\* The state of the stand-alone calls, which a run of the orchestrator leaves alone
clsVars == <<heap, cls_in, cls_out, cls_again, cpc>>

\* The state of two runs side by side
pairVars == <<mem, runs, pevents>>

fnVars == <<valVars, updVars, clsVars, pairVars>>

-----------------------------------------------------------------------------
(* Python values *)

Null == [t |-> "null"]

Str(s) == [t |-> "str", s |-> s]

Num(n) == [t |-> "num", n |-> n]

List(items) == [t |-> "list", items |-> items]

Dict(m) == [t |-> "dict", m |-> m]

EmptyMap == [k \in {} |-> Null]

IsList(v) == v.t = "list"

IsDict(v) == v.t = "dict"

\* `key in d`
HasKey(d, k) == k \in DOMAIN d.m

\* d.get(key, default)
Get(d, k, default) == IF HasKey(d, k) THEN d.m[k] ELSE default

\* bool(v): None, "", 0, [] and {} are false
Truthy(v) ==
    CASE v.t = "null" -> FALSE
      [] v.t = "str"  -> v.s # ""
      [] v.t = "num"  -> v.n # 0
      [] v.t = "list" -> v.items # <<>>
      [] v.t = "dict" -> DOMAIN v.m # {}

\* len(v) of a str, list or dict
PyLen(v) ==
    CASE v.t = "str"  -> Len(v.s)
      [] v.t = "list" -> Len(v.items)
      [] v.t = "dict" -> Cardinality(DOMAIN v.m)

-----------------------------------------------------------------------------
(* CompensationReActAgent._validate_structure *)

\* One line of the error text: the path prefix and the rule.
Err(path, rule) == [path |-> path, rule |-> rule]

\* Path segments of f"{path}/{node.get('name', f'node{i}')}" and f"root/node{i}"
SegRoot == [seg |-> "root"]

SegNode(i) == [seg |-> "node", i |-> i]

SegName(v) == [seg |-> "name", v |-> v]

RECURSIVE validate_node(_, _)
RECURSIVE validate_children(_, _, _)

\* for i, child in enumerate(node["children"]), from the (0-based) index i on
validate_children(node, path, i) ==
    IF i >= Len(node.m["children"].items) THEN <<>>
    ELSE LET child      == node.m["children"].items[i + 1]
             child_path == Append(path, IF HasKey(node, "name")
                                        THEN SegName(node.m["name"])
                                        ELSE SegNode(i))
         IN  validate_node(child, child_path) \o validate_children(node, path, i + 1)

\* validate_node returning at its first error
validate_node_short_circuit(node, path) ==
    IF ~IsDict(node) THEN << Err(path, "node must be an object") >>
    ELSE IF ~HasKey(node, "name") THEN << Err(path, "missing name") >>
    ELSE IF HasKey(node, "children")
         THEN IF ~IsList(node.m["children"])
              THEN << Err(path, "children must be a list") >>
              ELSE validate_children(node, path, 0)
         ELSE <<>>

validate_node(node, path) ==
    IF ~IsDict(node) THEN << Err(path, "node must be an object") >>
    ELSE (IF ~HasKey(node, "name") THEN << Err(path, "missing name") >> ELSE <<>>)
         \o
         (IF HasKey(node, "children")
          THEN IF ~IsList(node.m["children"])
               THEN << Err(path, "children must be a list") >>
               ELSE validate_children(node, path, 0)
          ELSE <<>>)

RECURSIVE validate_top(_, _)
\* for i, node in enumerate(structure): validate_node(node, f"root/node{i}")
validate_top(structure, i) ==
    IF i >= Len(structure.items) THEN <<>>
    ELSE validate_node(structure.items[i + 1], <<SegRoot, SegNode(i)>>)
         \o validate_top(structure, i + 1)

\* The error lines of the returned text; <<>> stands for the return value None
\* ("\n".join(errors) of a non-empty list of non-empty lines is a non-empty text).
validate_structure(structure) ==
    IF ~IsList(structure) THEN << Err(<<>>, "structure must be a list") >>
    ELSE IF Len(structure.items) = 0 THEN << Err(<<>>, "structure must not be empty") >>
    ELSE validate_top(structure, 0)

-----------------------------------------------------------------------------
(* GetDefaultTemplateTool (tools.py) *)

ModuleTypes == <<"business", "technical", "pricing">>

\* self.templates: the content of data/default_templates.json.  Every template has
\* the fields that _execute_tool reads (title, category, children).
templates ==
    [key \in {ModuleTypes[i] \o "_template" : i \in 1..3} |->
        Dict([title    |-> Str(key),
              category |-> Str(CHOOSE mt \in {ModuleTypes[i] : i \in 1..3} :
                                   mt \o "_template" = key),
              children |-> List(<<>>)])]

\* str(v) as an f-string formats it; only the text of a str matters to the lookup
Format(v) == IF v.t = "str" THEN v.s ELSE "<" \o v.t \o ">"

\* GetDefaultTemplateTool.run(module_type)
get_default_template_run(module_type) ==
    LET template_key == Format(module_type) \o "_template"
    IN  IF template_key \notin DOMAIN templates
        THEN [success |-> FALSE, error |-> "template not found", module |-> module_type]
        ELSE [success  |-> TRUE,
              module   |-> module_type,
              template |-> templates[template_key],
              insert_position_hint |->
                  Get(templates[template_key], "insert_position_hint", Str("after_all"))]

-----------------------------------------------------------------------------
(* UpdateNodeCategoryTool (tools.py) *)

ValidToolCategories == {Str("business"), Str("technical"), Str("pricing")}

RECURSIVE deep_copy_raises(_)
\* _deep_copy calls node.get and iterates node["children"]: it raises (AttributeError
\* or TypeError) on a node that is no dict and on truthy children that are no list
\* of nodes it can copy.
deep_copy_raises(node) ==
    \/ ~IsDict(node)
    \/ /\ HasKey(node, "children")
       /\ Truthy(node.m["children"])
       /\ \/ ~IsList(node.m["children"])
          \/ \E i \in 1..Len(node.m["children"].items) :
                 deep_copy_raises(node.m["children"].items[i])

RECURSIVE deep_copy(_)
\* _deep_copy(node), for a node on which it does not raise
deep_copy(node) ==
    LET kids == IF HasKey(node, "children") /\ Truthy(node.m["children"])
                THEN [i \in 1..Len(node.m["children"].items) |->
                         deep_copy(node.m["children"].items[i])]
                ELSE <<>>
    IN  Dict([k \in DOMAIN node.m \cup {"name", "category", "children"} |->
                CASE k = "name"     -> Get(node, "name", Str(""))
                  [] k = "category" -> Get(node, "category", Null)
                  [] k = "children" -> List(kids)
                  [] OTHER          -> node.m[k]])

\* The node names a path segment can hold, and the paths built from them.
Segments == {"root", "A", "B", "C"}

MaxPathLen == 3

PathParts == UNION {[1..n -> Segments] : n \in 1..MaxPathLen}

RECURSIVE Join(_)
\* "/".join(parts)
Join(parts) ==
    IF Len(parts) = 1 THEN parts[1]
    ELSE parts[1] \o "/" \o Join(Tail(parts))

\* path.split("/")
split(path) == CHOOSE parts \in PathParts : Join(parts) = path

\* The last child with the name instead of the first
last_match(current, part) ==
    LET kids == current.m["children"]
        hits == IF HasKey(current, "children") /\ Truthy(kids)
                THEN {i \in 1..Len(kids.items) : Get(kids.items[i], "name", Null) = Str(part)}
                ELSE {}
    IN  IF hits = {} THEN 0
        ELSE CHOOSE i \in hits : \A j \in hits : i >= j

\* The first child of `current` (a copied node) whose name equals `part`; 0 if none.
\* for child in current["children"]: if child.get("name") == part: ... break
first_match(current, part) ==
    LET kids == current.m["children"]
        hits == IF HasKey(current, "children") /\ Truthy(kids)
                THEN {i \in 1..Len(kids.items) : Get(kids.items[i], "name", Null) = Str(part)}
                ELSE {}
    IN  IF hits = {} THEN 0
        ELSE CHOOSE i \in hits : \A j \in hits : i <= j

RECURSIVE walk(_, _, _, _)
\* The `for part in parts` loop of _find_node_by_path, from parts[k] on; pos is the
\* position of `current` in the structure, as the sequence of child indices from it.
walk(current, parts, k, pos) ==
    IF k > Len(parts) THEN [found |-> TRUE, pos |-> pos]
    ELSE IF parts[k] = "root" THEN walk(current, parts, k + 1, pos)
    ELSE LET i == first_match(current, parts[k])
         IN  IF i = 0 THEN [found |-> FALSE, pos |-> <<>>]
             ELSE walk(current.m["children"].items[i], parts, k + 1, Append(pos, i))

\* _find_node_by_path(structure, path) for a str path: the position of the node it
\* returns (found = FALSE for None).
find_node_by_path(structure, path) ==
    IF path = "" \/ path = "root" THEN [found |-> TRUE, pos |-> <<>>]
    ELSE walk(structure, split(path), 1, <<>>)

RECURSIVE annotate_node_and_children(_, _)
\* _annotate_node_and_children(node, category): the node after the in-place update
annotate_node_and_children(node, category) ==
    LET kids == node.m["children"]
    IN  Dict([k \in DOMAIN node.m \cup {"category"} |->
                CASE k = "category" -> category
                  [] k = "children" /\ Truthy(kids) ->
                         List([i \in 1..Len(kids.items) |->
                                 annotate_node_and_children(kids.items[i], category)])
                  [] OTHER -> node.m[k]])

RECURSIVE node_at(_, _)
\* The node at position pos below `node`
node_at(node, pos) ==
    IF pos = <<>> THEN node
    ELSE node_at(node.m["children"].items[Head(pos)], Tail(pos))

RECURSIVE annotate_at(_, _, _)
\* The structure after _annotate_node_and_children ran on the node at pos
annotate_at(node, pos, category) ==
    IF pos = <<>> THEN annotate_node_and_children(node, category)
    ELSE Dict([node.m EXCEPT !["children"] =
                 List([@.items EXCEPT ![Head(pos)] = annotate_at(@, Tail(pos), category)])])

\* UpdateNodeCategoryTool.run(structure, node_path, category).  raised names the
\* exception that leaves run ("none" when it returns).
update_node_category_run(structure, node_path, category) ==
    IF category \notin ValidToolCategories
    THEN [raised |-> "none", success |-> FALSE, error |-> "invalid category"]
    ELSE IF deep_copy_raises(structure)
    THEN [raised |-> "AttributeError"]
    ELSE IF node_path.t # "str"
    THEN [raised |-> "AttributeError"]
    ELSE LET updated_structure == deep_copy(structure)
             target            == find_node_by_path(updated_structure, node_path.s)
         IN  IF ~target.found
             THEN [raised |-> "none", success |-> FALSE, error |-> "node not found"]
             ELSE [raised  |-> "none",
                   success |-> TRUE,
                   updated_structure |->
                       annotate_at(updated_structure, target.pos, category),
                   message |-> [name |-> Get(node_at(updated_structure, target.pos),
                                              "name", Str("unknown")),
                                category |-> category]]

-----------------------------------------------------------------------------
(* Backend responses.  A response text is held as what the regular expressions *)
(* of agent.py find in it:                                                     *)
(*   final.marker   "Final Answer:" in response                                *)
(*   final.match    "none": none of the three patterns of _extract_final_answer *)
(*                  matches; "bad": json.loads fails on the matched text;      *)
(*                  "json": it parses, to final.value                          *)
(*   action.name    the \w+ after "Action:" ("" when there is no match)        *)
(*   action.match   the same three cases for "Action Input:" and its JSON      *)

NoFinal == [marker |-> FALSE, match |-> "none", value |-> Null]

Final(match, value) == [marker |-> TRUE, match |-> match, value |-> value]

NoAction == [name |-> "", match |-> "none", value |-> Dict(EmptyMap)]

Action(name, match, value) == [name |-> name, match |-> match, value |-> value]

Response(final, action) == [final |-> final, action |-> action]

\* _extract_final_answer(response); Null stands for None
extract_final_answer(resp) ==
    IF resp.final.match = "json"
    THEN LET parsed == resp.final.value
         IN  IF IsDict(parsed) /\ HasKey(parsed, "children") THEN parsed.m["children"]
             ELSE IF IsList(parsed) THEN parsed
             ELSE Null
    ELSE Null

\* _parse_action(response): action_name "" stands for None
parse_action(resp) ==
    IF resp.action.name = ""
    THEN [action_name |-> "", action_input |-> Null]
    ELSE [action_name  |-> resp.action.name,
          action_input |-> IF resp.action.match = "json" THEN resp.action.value
                           ELSE Dict(EmptyMap)]

\* Observation texts
ObsError(text) == [kind |-> "error", text |-> text]

\* _execute_tool(tool_name, tool_input, current_structure): the observation, the
\* content of the list current_structure afterwards, and the exception raised.
execute_tool(tool_name, tool_input, structure) ==
    IF tool_name = "get_default_template"
    THEN LET module_type == Get(tool_input, "module_type", Null)
             res         == get_default_template_run(module_type)
         IN  [raised    |-> "none",
              structure |-> structure,
              observation |->
                  IF ~Truthy(module_type) THEN ObsError("missing module_type")
                  ELSE IF res.success
                  THEN [kind |-> "template", module |-> module_type,
                        template |-> res.template, hint |-> res.insert_position_hint]
                  ELSE ObsError(res.error)]
    ELSE IF tool_name = "update_node_category"
    THEN LET node_path == Get(tool_input, "node_path", Null)
             category  == Get(tool_input, "category", Null)
             full_structure == Dict([name |-> Str("root"), children |-> structure])
             res == update_node_category_run(full_structure, node_path, category)
         IN  IF ~Truthy(node_path) \/ ~Truthy(category)
             THEN [raised |-> "none", structure |-> structure,
                   observation |-> ObsError("missing node_path or category")]
             ELSE IF res.raised # "none"
             THEN [raised |-> res.raised, structure |-> structure,
                   observation |-> ObsError("raised")]
             ELSE IF res.success
             THEN [raised |-> "none",
                   structure |-> res.updated_structure.m["children"],
                   observation |-> [kind |-> "updated", name |-> res.message.name,
                                    category |-> res.message.category]]
             ELSE [raised |-> "none", structure |-> structure,
                   observation |-> ObsError(res.error)]
    ELSE [raised |-> "none", structure |-> structure,
          observation |-> ObsError("unknown tool")]

-----------------------------------------------------------------------------
(* Conversation history and results *)

max_iterations == 10

max_retries == 3

SystemMessage == [role |-> "system", content |-> [kind |-> "system_prompt"]]

\* The first user message embeds json.dumps(extraction_result)
InitialMessage(forest) ==
    [role |-> "user", content |-> [kind |-> "initial", structure |-> forest]]

\* The response appended with the role of the user
AssistantMessage_as_user(resp) ==
    [role |-> "user", content |-> [kind |-> "response", response |-> resp]]

AssistantMessage(resp) ==
    [role |-> "assistant", content |-> [kind |-> "response", response |-> resp]]

UserMessage(content) == [role |-> "user", content |-> content]

ValidationFeedback(validation_error) ==
    [kind |-> "validation_error", errors |-> validation_error]

\* The plain request to go on where the code reports the parse failure
ParseFeedback_as_continue == [kind |-> "continue"]

ParseFeedback == [kind |-> "parse_error"]

ContinueFeedback == [kind |-> "continue"]

ObservationFeedback(observation) == [kind |-> "observation", observation |-> observation]

NoResult == [returned |-> FALSE]

NoResponse == Response(NoFinal, NoAction)

\* agent.run's "log" entries
AgentDoneLog(n) == <<[line |-> "agent_done", n |-> n]>>

\* The cap reported like a completion
MaxIterationsLog_as_done == AgentDoneLog(max_iterations)

MaxIterationsLog == <<[line |-> "max_iterations", n |-> max_iterations]>>

\* orchestrator.run's own log entries
DetectLog(is_empty, node_count) ==
    [line |-> IF is_empty THEN "detected_empty" ELSE "detected_nodes", n |-> node_count]

\* The dict returned by CompensationOrchestrator.run
OrchestratorResult(compensated, source, log) ==
    [returned |-> TRUE, compensated_structure |-> compensated,
     source |-> source, log |-> log]

\* orchestrator.run after `await self._use_agent(...)` returned agent_result
AgentResult(structure, agent_log) ==
    OrchestratorResult(structure, "agent",
        <<DetectLog(FALSE, PyLen(extraction_result)),
          [line |-> "use_agent", n |-> 0]>> \o agent_log)

\* CompensationOrchestrator._get_default_structure
get_default_structure ==
    List(<<get_default_template_run(Str("business")).template,
           get_default_template_run(Str("technical")).template,
           get_default_template_run(Str("pricing")).template>>)

\* `extraction_result is None` alone
is_empty_none_only(forest) == forest.t = "null"

\* is_empty = not extraction_result or len(extraction_result) == 0
is_empty(forest) == ~Truthy(forest) \/ PyLen(forest) = 0

-----------------------------------------------------------------------------
(* CompensationOrchestrator.run up to the first backend call *)

\* Exception e leaves CompensationOrchestrator.run (no frame of a backend call is left)
Raise(e) ==
    /\ pc' = "raised"
    /\ exc' = e
    /\ attempt' = 0

OrchestratorRun ==
    /\ pc = "start"
    /\ UNCHANGED <<extraction_result, response, tool_runs, events>>
    /\ UNCHANGED fnVars
    /\ IF Truthy(extraction_result) /\ extraction_result.t = "num"
       THEN \* len() of an int
            /\ Raise("TypeError")
            /\ UNCHANGED <<iteration, calls, messages, current_structure, result>>
       ELSE IF is_empty(extraction_result)
       THEN /\ pc' = "done"
            /\ result' = OrchestratorResult(get_default_structure, "default_template",
                             <<DetectLog(TRUE, 0), [line |-> "use_default_template", n |-> 0]>>)
            /\ UNCHANGED <<iteration, attempt, calls, messages, current_structure, exc>>
       ELSE IF extraction_result.t = "str"
       THEN \* agent.run: extraction_result.copy() of a str
            /\ Raise("AttributeError")
            /\ messages' = <<SystemMessage, InitialMessage(extraction_result)>>
            /\ UNCHANGED <<iteration, calls, current_structure, result>>
       ELSE \* agent.run, to the first `await self._call_llm_non_streaming(messages)`
            /\ messages' = <<SystemMessage, InitialMessage(extraction_result)>>
            /\ current_structure' = extraction_result
            /\ iteration' = 1
            /\ calls' = 1
            /\ attempt' = 1
            /\ pc' = "calling"
            /\ UNCHANGED <<result, exc>>

-----------------------------------------------------------------------------
(* CompensationReActAgent._call_llm_non_streaming: one attempt is in flight *)
(* while pc = "calling"                                                     *)

\* The responses of one run that are neither the plain text (no marker at all) nor the
\* last one are explored up to this number; transient failures of the backend are
\* explored in the calls before the last of them.
MaxEvents == 1

\* `if attempt <= max_retries`
may_retry_one_more(n) == n <= max_retries

\* `if attempt < max_retries` (agent.py:293): sleep and try again, else re-raise
may_retry(n) == n < max_retries

\* httpx.RemoteProtocolError or httpx.TimeoutException (the 180 s timeout included)
LLMTransientError ==
    /\ pc = "calling"
    /\ events < MaxEvents
    /\ IF may_retry(attempt)
       THEN /\ pc' = "sleeping"
            /\ UNCHANGED <<exc, attempt>>
       ELSE Raise("TransientError")
    /\ UNCHANGED <<extraction_result, iteration, calls, messages, response,
                   current_structure, tool_runs, events, result>>
    /\ UNCHANGED fnVars

\* await asyncio.sleep(retry_delay) is over: the next attempt of the same call
RetryAfterDelay ==
    /\ pc = "sleeping"
    /\ pc' = "calling"
    /\ attempt' = attempt + 1
    /\ UNCHANGED <<extraction_result, iteration, calls, messages, response,
                   current_structure, tool_runs, events, result, exc>>
    /\ UNCHANGED fnVars

\* Any other exception of the attempt (HTTP status error, malformed reply body)
LLMOtherError ==
    /\ pc = "calling"
    /\ Raise("BackendError")
    /\ UNCHANGED <<extraction_result, iteration, calls, messages, response,
                   current_structure, tool_runs, events, result>>
    /\ UNCHANGED fnVars

-----------------------------------------------------------------------------
(* CompensationReActAgent.run: the body of one iteration, from the response *)
(* to the next backend call or to the return                                *)

\* range(1, max_iterations + 2): one iteration too many
has_next_iteration_one_more(n) == n < max_iterations + 1

\* range(1, max_iterations): one iteration short
has_next_iteration_one_short(n) == n < max_iterations - 1

\* `for iteration in range(1, max_iterations + 1)` has a next value after n
has_next_iteration(n) == n < max_iterations

\* The parsed structure is returned without a look at the Validator's answer
final_answer_accepted_unvalidated(final_structure) == Truthy(final_structure)

\* The test of validation_error inverted
final_answer_accepted_inverted(final_structure) ==
    /\ Truthy(final_structure)
    /\ validate_structure(final_structure) # <<>>

\* `if final_structure:` and `if validation_error:` (agent.py:176-179): whether the
\* parsed Final Answer is returned
final_answer_accepted(final_structure) ==
    /\ Truthy(final_structure)
    /\ validate_structure(final_structure) = <<>>

\* The two messages are appended and the loop goes on: to the next backend call, or
\* past the last iteration to the return of the current structure, which
\* orchestrator.run wraps.
Continue(resp, feedback, structure) ==
    /\ resp = NoResponse \/ events < MaxEvents
    /\ response' = resp
    /\ messages' = messages \o <<AssistantMessage(resp), UserMessage(feedback)>>
    /\ current_structure' = structure
    /\ events' = IF resp = NoResponse THEN events ELSE events + 1
    /\ UNCHANGED <<extraction_result, exc>>
    /\ UNCHANGED fnVars
    /\ IF has_next_iteration(iteration)
       THEN /\ iteration' = iteration + 1
            /\ calls' = calls + 1
            /\ attempt' = 1
            /\ pc' = "calling"
            /\ UNCHANGED result
       ELSE /\ pc' = "done"
            /\ result' = AgentResult(structure, MaxIterationsLog)
            /\ attempt' = 0
            /\ UNCHANGED <<iteration, calls>>

\* "Final Answer:" in response, parsed and valid: return it
FinalAnswerAccepted(resp) ==
    /\ pc = "calling"
    /\ resp.final.marker
    /\ final_answer_accepted(extract_final_answer(resp))
    /\ response' = resp
    /\ pc' = "done"
    /\ result' = AgentResult(extract_final_answer(resp), AgentDoneLog(iteration))
    /\ attempt' = 0
    /\ UNCHANGED <<extraction_result, iteration, calls, messages,
                   current_structure, tool_runs, events, exc>>
    /\ UNCHANGED fnVars

\* "Final Answer:" in response, parsed, rejected by _validate_structure
FinalAnswerInvalid(resp) ==
    /\ pc = "calling"
    /\ resp.final.marker
    /\ Truthy(extract_final_answer(resp))
    /\ ~final_answer_accepted(extract_final_answer(resp))
    /\ Continue(resp, ValidationFeedback(validate_structure(extract_final_answer(resp))),
                current_structure)
    /\ UNCHANGED tool_runs

\* "Final Answer:" in response, `if final_structure:` fails
FinalAnswerUnparsed(resp) ==
    /\ pc = "calling"
    /\ resp.final.marker
    /\ ~Truthy(extract_final_answer(resp))
    /\ Continue(resp, ParseFeedback, current_structure)
    /\ UNCHANGED tool_runs

\* No "Final Answer:" and no "Action:"
NoActionFound(resp) ==
    /\ pc = "calling"
    /\ ~resp.final.marker
    /\ parse_action(resp).action_name = ""
    /\ Continue(resp, ContinueFeedback, current_structure)
    /\ UNCHANGED tool_runs

\* The Action of a response is executed whether or not it holds "Final Answer:"
ToolExecuted_despite_marker(resp) ==
    /\ pc = "calling"
    /\ parse_action(resp).action_name # ""
    /\ LET act == parse_action(resp)
           out == execute_tool(act.action_name, act.action_input, current_structure)
       IN  /\ tool_runs' = tool_runs + 1
           /\ IF out.raised # "none"
              THEN /\ Raise(out.raised)
                   /\ response' = resp
                   /\ UNCHANGED <<extraction_result, iteration, calls, messages,
                                  current_structure, events, result>>
                   /\ UNCHANGED fnVars
              ELSE Continue(resp, ObservationFeedback(out.observation), out.structure)

\* No "Final Answer:", an "Action:": _execute_tool
ToolExecuted(resp) ==
    /\ pc = "calling"
    /\ ~resp.final.marker
    /\ parse_action(resp).action_name # ""
    /\ LET act == parse_action(resp)
           out == execute_tool(act.action_name, act.action_input, current_structure)
       IN  /\ tool_runs' = tool_runs + 1
           /\ IF out.raised # "none"
              THEN /\ Raise(out.raised)
                   /\ response' = resp
                   /\ UNCHANGED <<extraction_result, iteration, calls, messages,
                                  current_structure, events, result>>
                   /\ UNCHANGED fnVars
              ELSE Continue(resp, ObservationFeedback(out.observation), out.structure)

-----------------------------------------------------------------------------
(* Inputs: forests handed to the orchestrator, and backend response texts *)

Node(name) == Dict([name |-> Str(name)])

\* [A [B(pricing) [C], C(described)], B]
Forest1 ==
    List(<<Dict([name |-> Str("A"),
                 children |-> List(<<Dict([name |-> Str("B"),
                                           category |-> Str("pricing"),
                                           children |-> List(<<Node("C")>>)]),
                                     Dict([name |-> Str("C"),
                                           content_description |-> Str("d")])>>)]),
           Node("B")>>)

\* A list that holds a text where a node is expected
MalformedForest == List(<<Str("x")>>)

Inputs == {Null, List(<<>>), Str("abc"), Num(5), Forest1, MalformedForest}

UpdateInput(node_path, category) ==
    Dict([node_path |-> node_path, category |-> category])

FinalPayloads ==
    { Final("bad", Null),                                    \* malformed JSON
      Final("json", List(<<>>)),                             \* []
      Final("json", List(<<Node("Root")>>)),                 \* [{"name": "Root"}]
      Final("json", Dict([name |-> Str("root"),              \* {"name":..,"children":[..]}
                          children |-> List(<<Node("A"), Node("B")>>)])),
      Final("json", List(<<Dict([children |-> List(<<>>)])>>)),   \* name missing
      Final("json", Node("x")),                              \* an object without children
      Final("json", Dict([children |-> Str("x")])) }         \* children is no list

Actions ==
    { Action("frobnicate", "json", Dict(EmptyMap)),
      Action("get_default_template", "json", Dict([module_type |-> Str("business")])),
      Action("get_default_template", "json", Dict([module_type |-> Str("legal")])),
      Action("get_default_template", "bad", Dict(EmptyMap)),
      Action("update_node_category", "json", UpdateInput(Str("root/A/B"), Str("business"))),
      Action("update_node_category", "json", UpdateInput(Str("root/A"), Str("technical"))),
      Action("update_node_category", "json", UpdateInput(Str("root/C"), Str("business"))),
      Action("update_node_category", "json", UpdateInput(Str("root/A"), Str("mixed"))),
      Action("update_node_category", "json", UpdateInput(Num(5), Str("business"))),
      Action("update_node_category", "bad", Dict(EmptyMap)),
      Action("update_node_category", "none", Dict(EmptyMap)) }

\* A response with both the marker and an action
BothResponses ==
    { Response(Final("json", List(<<Node("Root")>>)),
               Action("update_node_category", "json",
                      UpdateInput(Str("root/A"), Str("technical")))),
      Response(Final("bad", Null),
               Action("update_node_category", "json",
                      UpdateInput(Str("root/A"), Str("technical")))),
      Response(Final("json", List(<<Dict([children |-> List(<<>>)])>>)),
               Action("update_node_category", "json",
                      UpdateInput(Str("root/A"), Str("technical")))) }

Responses ==
    {NoResponse}
    \cup {Response(f, NoAction) : f \in FinalPayloads}
    \cup {Response(NoFinal, a) : a \in Actions}
    \cup BothResponses

-----------------------------------------------------------------------------
(* No call in progress *)

NoCall == [called |-> FALSE]

\* No run of the orchestrator
RunOff ==
    /\ extraction_result = Null
    /\ pc = "idle"
    /\ iteration = 0
    /\ attempt = 0
    /\ calls = 0
    /\ messages = <<>>
    /\ response = NoResponse
    /\ current_structure = Null
    /\ tool_runs = 0
    /\ events = 0
    /\ result = NoResult
    /\ exc = "none"

\* No stand-alone _validate_structure call
ValidateOff ==
    /\ candidate = Null
    /\ errors = <<>>
    /\ vpc = "off"

\* No stand-alone UpdateNodeCategoryTool.run call
UpdateOff ==
    /\ upd_in = NoCall
    /\ upd_out = NoCall
    /\ upc = "off"

\* No stand-alone classifier call
ClassifyOff ==
    /\ heap = <<>>
    /\ cls_in = Null
    /\ cls_out = NoCall
    /\ cls_again = NoCall
    /\ cpc = "off"

\* No pair of runs
PairOff ==
    /\ mem = <<>>
    /\ runs = <<>>
    /\ pevents = 0

-----------------------------------------------------------------------------
(* The run of CompensationOrchestrator.run *)

Init ==
    /\ extraction_result \in Inputs
    /\ pc = "start"
    /\ iteration = 0
    /\ attempt = 0
    /\ calls = 0
    /\ messages = <<>>
    /\ response = NoResponse
    /\ current_structure = Null
    /\ tool_runs = 0
    /\ events = 0
    /\ result = NoResult
    /\ exc = "none"
    /\ candidate = Null
    /\ errors = <<>>
    /\ vpc = "off"
    /\ UpdateOff
    /\ ClassifyOff
    /\ PairOff

Next ==
    \/ OrchestratorRun
    \/ LLMTransientError
    \/ RetryAfterDelay
    \/ LLMOtherError
    \/ \E resp \in Responses : FinalAnswerAccepted(resp)
    \/ \E resp \in Responses : FinalAnswerInvalid(resp)
    \/ \E resp \in Responses : FinalAnswerUnparsed(resp)
    \/ \E resp \in Responses : NoActionFound(resp)
    \/ \E resp \in Responses : ToolExecuted(resp)

Spec == Init /\ [][Next]_vars

-----------------------------------------------------------------------------
(* _validate_structure called on its own, on every candidate of a bounded family *)

\* Marks a key that a generated node does not have
Absent == [t |-> "absent"]

MakeNode(name, children) ==
    Dict((IF name = Absent THEN EmptyMap ELSE [name |-> name])
         @@ (IF children = Absent THEN EmptyMap ELSE [children |-> children]))

\* name absent, a text, or the empty text
NameOpts == {Absent, Str("A"), Str("")}

\* Nodes without child nodes: two values that are no dict, and dicts with or without
\* name whose children are absent, None, [] or a text
LeafNodes ==
    {Str("x"), List(<<>>)}
    \cup {MakeNode(n, c) : n \in NameOpts, c \in {Absent, Null, List(<<>>), Str("c")}}

\* The longest children list of a generated node
MaxKids == 2

SeqsUpTo(S, n) == UNION {[1..k -> S] : k \in 1..n}

MidNodes == {MakeNode(n, List(kids)) : n \in NameOpts, kids \in SeqsUpTo(LeafNodes, MaxKids)}

\* Chains of three nodes
DeepNodes ==
    {MakeNode(n, List(<<m>>)) :
        n \in NameOpts,
        m \in {MakeNode(n2, List(<<l>>)) : n2 \in NameOpts, l \in LeafNodes}}

Candidates ==
    {Null, Str("x"), Dict(EmptyMap), List(<<>>)}
    \cup {List(<<n>>) : n \in LeafNodes \cup MidNodes \cup DeepNodes}
    \cup {List(<<a, b>>) : a \in LeafNodes, b \in LeafNodes}

InitValidate ==
    /\ extraction_result = Null
    /\ pc = "idle"
    /\ iteration = 0
    /\ attempt = 0
    /\ calls = 0
    /\ messages = <<>>
    /\ response = NoResponse
    /\ current_structure = Null
    /\ tool_runs = 0
    /\ events = 0
    /\ result = NoResult
    /\ exc = "none"
    /\ candidate \in Candidates
    /\ errors = <<>>
    /\ vpc = "ready"
    /\ UpdateOff
    /\ ClassifyOff
    /\ PairOff

Validate ==
    /\ vpc = "ready"
    /\ errors' = validate_structure(candidate)
    /\ vpc' = "validated"
    /\ UNCHANGED candidate
    /\ UNCHANGED runVars
    /\ UNCHANGED updVars
    /\ UNCHANGED clsVars
    /\ UNCHANGED pairVars

NextValidate == Validate

SpecValidate == InitValidate /\ [][NextValidate]_vars

-----------------------------------------------------------------------------
(* UpdateNodeCategoryTool.run called on its own, as _execute_tool calls it: on *)
(* {"name": "root", "children": <forest>}                                      *)

\* A node with the given name, category and children, each of which may be Absent
CatNode(name, cat, children) ==
    Dict((IF name = Absent THEN EmptyMap ELSE [name |-> name])
         @@ (IF cat = Absent THEN EmptyMap ELSE [category |-> cat])
         @@ (IF children = Absent THEN EmptyMap ELSE [children |-> children]))

\* Nodes without child nodes: plain, categorised, with another field, with children
\* null or [], and one without a name
UpdLeaves ==
    { Node("B"), Node("C"),
      CatNode(Str("B"), Str("pricing"), List(<<>>)),
      CatNode(Str("C"), Absent, Null),
      Dict([name |-> Str("C"), content_description |-> Str("d")]),
      Dict([category |-> Str("mixed")]) }

\* Nodes named B with one child
UpdBNodes ==
    {CatNode(Str("B"), c, List(<<l>>)) : c \in {Absent, Str("pricing")}, l \in UpdLeaves}

\* Nodes named A with one or two children
UpdANodes ==
    {CatNode(Str("A"), c, List(kids)) :
        c \in {Absent, Str("technical")},
        kids \in [1..1 -> UpdLeaves \cup UpdBNodes] \cup [1..2 -> UpdLeaves \cup UpdBNodes]}

UpdForests ==
    {List(<<a>>) : a \in UpdANodes}
    \cup {List(<<a, Node("B")>>) : a \in UpdANodes}
    \cup {List(<<Node("C"), a>>) : a \in UpdANodes}
    \cup {List(<<CatNode(Str("root"), Absent, List(<<Node("B")>>)), Node("A")>>)}
    \cup {MalformedForest}

UpdPaths ==
    { Str("root"), Str("root/A"), Str("root/A/B"), Str("A/B"), Str("A/B/C"),
      Str("root/A/C"), Str("root/B"), Str("root/C/B"), Str("root/root/A"), Str("root/root"), Num(5) }

UpdCategories == {Str("business"), Str("pricing"), Str("mixed")}

InitUpdate ==
    /\ RunOff
    /\ ValidateOff
    /\ upd_in \in [structure : {Dict([name |-> Str("root"), children |-> f]) : f \in UpdForests},
                    node_path : UpdPaths,
                    category  : UpdCategories]
    /\ upd_out = NoCall
    /\ upc = "ready"
    /\ ClassifyOff
    /\ PairOff

\* result = self.tools["update_node_category"].run(full_structure, node_path, category)
Update ==
    /\ upc = "ready"
    /\ LET res == update_node_category_run(upd_in.structure, upd_in.node_path,
                                            upd_in.category)
       IN  /\ upd_out' = res
           /\ upc' = IF res.raised = "none" THEN "returned" ELSE "raised"
    /\ UNCHANGED upd_in
    /\ UNCHANGED runVars
    /\ UNCHANGED valVars
    /\ UNCHANGED clsVars
    /\ UNCHANGED pairVars

NextUpdate == Update

SpecUpdate == InitUpdate /\ [][NextUpdate]_vars

-----------------------------------------------------------------------------
(* CatalogClassifier (classifier.py), on a heap of Python objects.             *)
(* A heap is a sequence of list and dict objects; the address of an object is  *)
(* its index.  Inside an object a list or dict is held as a reference to it,   *)
(* so that two holders of one object are told from two holders of equal ones.  *)

Ref(a) == [t |-> "ref", a |-> a]

IsRef(v) == v.t = "ref"

\* bool(v) of a value held in an object of heap h
HeapTruthy(h, v) == IF IsRef(v) THEN Truthy(h[v.a]) ELSE Truthy(v)

RECURSIVE Store(_, _)
RECURSIVE StoreItems(_, _, _, _)
RECURSIVE StoreFields(_, _, _, _)

\* The items of a list from index i on, stored one after the other; acc holds the
\* stored items before i
StoreItems(h, items, i, acc) ==
    IF i > Len(items) THEN [h |-> h, vals |-> acc]
    ELSE LET st == Store(h, items[i])
         IN  StoreItems(st.h, items, i + 1, Append(acc, st.v))

\* The fields `keys` of a dict m, stored one after the other
StoreFields(h, m, keys, acc) ==
    IF keys = {} THEN [h |-> h, vals |-> acc]
    ELSE LET k  == CHOOSE x \in keys : TRUE
             st == Store(h, m[k])
         IN  StoreFields(st.h, m, keys \ {k}, acc @@ (k :> st.v))

\* The value v (a JSON value, nested) built as objects of the heap, none of them
\* shared: the heap afterwards and the value that stands for v in it
Store(h, v) ==
    IF v.t = "list"
    THEN LET st == StoreItems(h, v.items, 1, <<>>)
             h2 == Append(st.h, List(st.vals))
         IN  [h |-> h2, v |-> Ref(Len(h2))]
    ELSE IF v.t = "dict"
    THEN LET st == StoreFields(h, v.m, DOMAIN v.m, EmptyMap)
             h2 == Append(st.h, Dict(st.vals))
         IN  [h |-> h2, v |-> Ref(Len(h2))]
    ELSE [h |-> h, v |-> v]

RECURSIVE Deref(_, _)
\* The JSON value that a value of heap h stands for
Deref(h, v) ==
    IF ~IsRef(v) THEN v
    ELSE IF h[v.a].t = "list"
    THEN List([i \in 1..Len(h[v.a].items) |-> Deref(h, h[v.a].items[i])])
    ELSE Dict([k \in DOMAIN h[v.a].m |-> Deref(h, h[v.a].m[k])])

RECURSIVE Reach(_, _)
\* The addresses of the objects reachable from a value
Reach(h, v) ==
    IF ~IsRef(v) THEN {}
    ELSE {v.a} \cup
         (IF h[v.a].t = "list"
          THEN UNION {Reach(h, h[v.a].items[i]) : i \in 1..Len(h[v.a].items)}
          ELSE UNION {Reach(h, h[v.a].m[k]) : k \in DOMAIN h[v.a].m})

valid_categories ==
    {Str("business"), Str("technical"), Str("pricing"), Str("mixed"), Str("unknown")}

\* classify_node(node): node.get raises AttributeError on a node that is no dict, and
\* `category in valid_categories` raises TypeError on a category that is a list or a
\* dict (unhashable)
classify_node(h, node) ==
    IF ~(IsRef(node) /\ IsDict(h[node.a]))
    THEN [raised |-> "AttributeError", category |-> Null]
    ELSE LET category == Get(h[node.a], "category", Str("unknown"))
         IN  IF IsRef(category) THEN [raised |-> "TypeError", category |-> Null]
             ELSE [raised   |-> "none",
                   category |-> IF category \in valid_categories THEN category
                                ELSE Str("unknown")]

\* should_include (classifier.py:64-68)
should_include(category, target_type) ==
    \/ category = target_type
    \/ category = Str("mixed")
    \/ category = Str("unknown")

Raised(e, h) == [raised |-> e, h |-> h, v |-> Null]

\* filtered_node["children"] = None where the code sets []
set_children_null(h, fn, filtered) ==
    IF HeapTruthy(h, filtered)
    THEN [h EXCEPT ![fn] = Dict(@.m @@ [children |-> filtered])]
    ELSE [h EXCEPT ![fn] = Dict(@.m @@ [children |-> Null])]

\* classifier.py:80-88: the children field of filtered_node (the dict at address fn).
\* filtered is the list that the recursive call returned, or Null when node's
\* children was falsy and no call was made; in both cases of an empty outcome the
\* field gets a new empty list.
set_children(h, fn, filtered) ==
    IF HeapTruthy(h, filtered)
    THEN [h EXCEPT ![fn] = Dict(@.m @@ [children |-> filtered])]
    ELSE LET h2 == Append(h, List(<<>>))
         IN  [h2 EXCEPT ![fn] = Dict(@.m @@ [children |-> Ref(Len(h2))])]

RECURSIVE extract_view(_, _, _)
RECURSIVE extract_nodes(_, _, _, _, _)

\* The loop `for node in structure` from items[i] on; view is the reference to the
\* list `result`
extract_nodes(h, items, i, target_type, view) ==
    IF i > Len(items) THEN [raised |-> "none", h |-> h, v |-> view]
    ELSE
    LET node == items[i]
        cls  == classify_node(h, node)
    IN  IF cls.raised # "none" THEN Raised(cls.raised, h)
        ELSE IF ~should_include(cls.category, target_type)
        THEN extract_nodes(h, items, i + 1, target_type, view)
        ELSE IF ~HasKey(h[node.a], "name") THEN Raised("KeyError", h)
        ELSE
        LET \* filtered_node = {"name": node["name"]} and the copy of the other fields
            h1   == Append(h, Dict([k \in DOMAIN h[node.a].m \ {"children"} |->
                                       h[node.a].m[k]]))
            fn   == Len(h1)
            kids == Get(h[node.a], "children", Null)
            \* if node.get("children"): the recursive call
            sub  == IF HeapTruthy(h, kids) THEN extract_view(h1, kids, target_type)
                    ELSE [raised |-> "none", h |-> h1, v |-> Null]
            h2   == set_children(sub.h, fn, sub.v)
            \* result.append(filtered_node)
            h3   == [h2 EXCEPT ![view.a] = List(Append(@.items, Ref(fn)))]
        IN  IF sub.raised # "none" THEN Raised(sub.raised, sub.h)
            ELSE extract_nodes(h3, items, i + 1, target_type, view)

\* `result` is the argument itself: the kept nodes are appended to the input list
extract_view_into_argument(h, structure, target_type) ==
    IF IsRef(structure) /\ IsList(h[structure.a])
    THEN extract_nodes(h, h[structure.a].items, 1, target_type, structure)
    ELSE IF structure.t \in {"null", "num"} THEN Raised("TypeError", h)
    ELSE IF HeapTruthy(h, structure) THEN Raised("AttributeError", h)
    ELSE [raised |-> "none", h |-> h, v |-> structure]

\* The loop runs twice over the argument: every kept node is appended twice
extract_view_twice(h, structure, target_type) ==
    LET h0     == Append(h, List(<<>>))
        view   == Ref(Len(h0))
        first  == extract_nodes(h0, h[structure.a].items, 1, target_type, view)
    IN  IF IsRef(structure) /\ IsList(h[structure.a])
        THEN IF first.raised # "none" THEN first
             ELSE extract_nodes(first.h, h[structure.a].items, 1, target_type, view)
        ELSE IF structure.t \in {"null", "num"} THEN Raised("TypeError", h0)
        ELSE IF HeapTruthy(h, structure) THEN Raised("AttributeError", h0)
        ELSE [raised |-> "none", h |-> h0, v |-> view]

\* extract_view(structure, target_type): the heap afterwards and the returned list,
\* or the exception raised
extract_view(h, structure, target_type) ==
    LET h0     == Append(h, List(<<>>))        \* result = []
        view   == Ref(Len(h0))
    IN  IF IsRef(structure) /\ IsList(h[structure.a])
        THEN extract_nodes(h0, h[structure.a].items, 1, target_type, view)
        ELSE IF structure.t \in {"null", "num"}
        THEN Raised("TypeError", h0)            \* not iterable
        ELSE IF HeapTruthy(h, structure)
        THEN Raised("AttributeError", h0)       \* its first element is a str
        ELSE [raised |-> "none", h |-> h0, v |-> view]

\* classify_and_split(compensated_structure): the three calls in their order
classify_and_split(h, compensated_structure) ==
    LET b == extract_view(h, compensated_structure, Str("business"))
        t == extract_view(b.h, compensated_structure, Str("technical"))
        p == extract_view(t.h, compensated_structure, Str("pricing"))
    IN  IF b.raised # "none" THEN [raised |-> b.raised, h |-> b.h]
        ELSE IF t.raised # "none" THEN [raised |-> t.raised, h |-> t.h]
        ELSE IF p.raised # "none" THEN [raised |-> p.raised, h |-> p.h]
        ELSE [raised |-> "none", h |-> p.h,
              business |-> b.v, technical |-> t.v, pricing |-> p.v]

-----------------------------------------------------------------------------
(* classify_and_split called on its own, and extract_view called on a view *)

\* Values of the category field: absent, the five known values, another text, null,
\* and a list
ClsCategoryValues ==
    {Absent, Null, List(<<Str("business")>>)}
    \cup valid_categories \cup {Str("legal")}

\* Nodes without child nodes, among them a node with a list in a field, a node
\* without name, a value that is no mapping and a node whose children is a text
ClsLeaves ==
    {CatNode(Str("L"), c, Absent) : c \in ClsCategoryValues}
    \cup { CatNode(Str("L"), Absent, Null),
           CatNode(Str("L"), Str("technical"), List(<<>>)),
           Dict([name |-> Str("L"), tags |-> List(<<Str("x")>>)]),
           Dict([name |-> Str("L"), category |-> Str("business"),
                 content_description |-> Str("d")]),
           Dict([category |-> Str("pricing")]),
           Str("x"),
           CatNode(Str("L"), Absent, Str("ab")) }

ClsMids ==
    {CatNode(Str("M"), c, List(kids)) :
        c \in ClsCategoryValues, kids \in [1..1 -> ClsLeaves] \cup [1..2 -> ClsLeaves]}
    \cup {Dict([name |-> Str("M"), tags |-> List(<<Str("x")>>), children |-> List(<<l>>)]) :
              l \in ClsLeaves}

\* Chains of three nodes
ClsTops ==
    {CatNode(Str("T"), c, List(<<m>>)) :
        c \in {Absent, Str("business"), Str("technical"), Str("mixed")},
        m \in {CatNode(Str("M"), c2, List(<<l>>)) :
                  c2 \in {Absent, Str("business"), Str("pricing"), Str("legal")},
                  l \in ClsLeaves}}

ClsForests ==
    {Null, List(<<>>)}
    \cup {List(<<n>>) : n \in ClsLeaves \cup ClsMids \cup ClsTops}
    \cup {List(<<a, b>>) : a \in ClsLeaves, b \in ClsLeaves}

TargetTypes == {"business", "technical", "pricing"}

InitClassify ==
    /\ RunOff
    /\ ValidateOff
    /\ UpdateOff
    /\ PairOff
    /\ \E f \in ClsForests :
          /\ heap = Store(<<>>, f).h
          /\ cls_in = Store(<<>>, f).v
    /\ cls_out = NoCall
    /\ cls_again = NoCall
    /\ cpc = "ready"

\* views = classifier.classify_and_split(compensated_structure)
Classify ==
    /\ cpc = "ready"
    /\ LET r == classify_and_split(heap, cls_in)
       IN  /\ heap' = r.h
           /\ cls_out' = IF r.raised = "none"
                         THEN [raised |-> "none", business |-> r.business,
                               technical |-> r.technical, pricing |-> r.pricing]
                         ELSE [raised |-> r.raised]
           /\ cpc' = IF r.raised = "none" THEN "split" ELSE "raised"
    /\ UNCHANGED <<cls_in, cls_again>>
    /\ UNCHANGED <<runVars, valVars, updVars>>
    /\ UNCHANGED pairVars

\* classifier.extract_view(views[target_type], target_type)
ExtractAgain(target_type) ==
    /\ cpc = "split"
    /\ LET r == extract_view(heap, cls_out[target_type], Str(target_type))
       IN  /\ heap' = r.h
           /\ cls_again' = [target_type |-> target_type, raised |-> r.raised, v |-> r.v]
    /\ cpc' = "again"
    /\ UNCHANGED <<cls_in, cls_out>>
    /\ UNCHANGED <<runVars, valVars, updVars>>
    /\ UNCHANGED pairVars

NextClassify ==
    \/ Classify
    \/ \E target_type \in TargetTypes : ExtractAgain(target_type)

SpecClassify == InitClassify /\ [][NextClassify]_vars

-----------------------------------------------------------------------------
(* agent.run on Python objects.  Lists and dicts are objects of a heap, as in  *)
(* the classifier above, so that the caller's forest, the controller's list   *)
(* and the copies made by the update tool are distinct or shared as the code  *)
(* makes them.                                                                *)

\* list.copy(): a new list object with the same items
\* (agent.py:159) current_structure = extraction_result.copy()
list_no_copy(h, l) == [h |-> h, v |-> l]

list_copy(h, l) ==
    LET h2 == Append(h, List(h[l.a].items))
    IN  [h |-> h2, v |-> Ref(Len(h2))]

RECURSIVE deep_copy_obj(_, _)
RECURSIVE deep_copy_children(_, _, _, _)

\* [self._deep_copy(child) for child in node["children"]], from index i on
deep_copy_children(h, items, i, acc) ==
    IF i > Len(items) THEN [h |-> h, vals |-> acc]
    ELSE LET c == deep_copy_obj(h, items[i])
         IN  deep_copy_children(c.h, items, i + 1, Append(acc, c.v))

\* The node itself is handed back
deep_copy_obj_identity(h, node) == [h |-> h, v |-> node]

\* _deep_copy(node) (tools.py:214-231) for a dict object: a new dict with a new
\* children list; the values of the other fields are the same objects
deep_copy_obj(h, node) ==
    LET n    == h[node.a]
        kids == Get(n, "children", Null)
        cp   == IF HasKey(n, "children") /\ HeapTruthy(h, kids)
                THEN deep_copy_children(h, h[kids.a].items, 1, <<>>)
                ELSE [h |-> h, vals |-> <<>>]
        h1   == Append(cp.h, List(cp.vals))
        h2   == Append(h1,
                  Dict([k \in DOMAIN n.m \cup {"name", "category", "children"} |->
                          CASE k = "name"     -> Get(n, "name", Str(""))
                            [] k = "category" -> Get(n, "category", Null)
                            [] k = "children" -> Ref(Len(h1))
                            [] OTHER          -> n.m[k]]))
    IN  [h |-> h2, v |-> Ref(Len(h2))]

\* The first child object of `current` whose name equals `part`; Null if none
first_match_obj(h, current, part) ==
    LET n    == h[current.a]
        kids == Get(n, "children", Null)
        hits == IF HasKey(n, "children") /\ HeapTruthy(h, kids)
                THEN {i \in 1..Len(h[kids.a].items) :
                         Get(h[h[kids.a].items[i].a], "name", Null) = Str(part)}
                ELSE {}
    IN  IF hits = {} THEN Null
        ELSE h[kids.a].items[CHOOSE i \in hits : \A j \in hits : i <= j]

RECURSIVE walk_obj(_, _, _, _)
\* The `for part in parts` loop of _find_node_by_path (tools.py:250-266)
walk_obj(h, current, parts, k) ==
    IF k > Len(parts) THEN current
    ELSE IF parts[k] = "root" THEN walk_obj(h, current, parts, k + 1)
    ELSE LET c == first_match_obj(h, current, parts[k])
         IN  IF c = Null THEN Null ELSE walk_obj(h, c, parts, k + 1)

\* _find_node_by_path(structure, path) for a str path; Null stands for None
find_node_by_path_obj(h, structure, path) ==
    IF path = "" \/ path = "root" THEN structure
    ELSE walk_obj(h, structure, split(path), 1)

RECURSIVE annotate_obj(_, _, _)
RECURSIVE annotate_children(_, _, _, _)

annotate_children(h, items, i, category) ==
    IF i > Len(items) THEN h
    ELSE annotate_children(annotate_obj(h, items[i], category), items, i + 1, category)

\* _annotate_node_and_children(node, category) (tools.py:268-281): the objects are
\* written in place
annotate_obj(h, node, category) ==
    LET h1   == [h EXCEPT ![node.a] =
                    Dict([k \in DOMAIN @.m \cup {"category"} |->
                            IF k = "category" THEN category ELSE @.m[k]])]
        kids == Get(h1[node.a], "children", Null)
    IN  IF HasKey(h1[node.a], "children") /\ HeapTruthy(h1, kids)
        THEN annotate_children(h1, h1[kids.a].items, 1, category)
        ELSE h1

\* UpdateNodeCategoryTool.run(structure, node_path, category) (tools.py:171-212) on
\* a dict object whose nodes are dicts, with a str node_path
update_node_category_run_obj(h, structure, node_path, category) ==
    IF category \notin ValidToolCategories
    THEN [h |-> h, success |-> FALSE, error |-> "invalid category"]
    ELSE LET cp     == deep_copy_obj(h, structure)
             target == find_node_by_path_obj(cp.h, cp.v, node_path.s)
         IN  IF target = Null
             THEN [h |-> cp.h, success |-> FALSE, error |-> "node not found"]
             ELSE [h       |-> annotate_obj(cp.h, target, category),
                   success |-> TRUE,
                   updated_structure |-> cp.v,
                   message |-> [name |-> Get(cp.h[target.a], "name", Str("unknown")),
                                category |-> category]]

\* _execute_tool(tool_name, tool_input, current_structure) (agent.py:331-383) with
\* current_structure a list object: the heap afterwards and the observation
execute_tool_obj(h, tool_name, tool_input, structure) ==
    IF tool_name # "update_node_category"
    THEN [h |-> h, observation |-> execute_tool(tool_name, tool_input, Null).observation]
    ELSE LET node_path == Get(tool_input, "node_path", Null)
             category  == Get(tool_input, "category", Null)
             \* full_structure = {"name": "root", "children": current_structure}
             h1   == Append(h, Dict([name |-> Str("root"), children |-> structure]))
             res  == update_node_category_run_obj(h1, Ref(Len(h1)), node_path, category)
         IN  IF ~Truthy(node_path) \/ ~Truthy(category)
             THEN [h |-> h, observation |-> ObsError("missing node_path or category")]
             ELSE IF res.success
             THEN \* current_structure.clear(); current_structure.extend(...)
                  [h |-> [res.h EXCEPT ![structure.a] =
                            List(res.h[res.h[res.updated_structure.a].m["children"].a].items)],
                   observation |-> [kind |-> "updated", name |-> res.message.name,
                                    category |-> res.message.category]]
             ELSE [h |-> res.h, observation |-> ObsError(res.error)]

\* The history is the list that holds the process-wide state (object 1)
history_in_process_state(h, msgs) ==
    [h |-> [h EXCEPT ![1] = List(msgs)], v |-> Ref(1)]

\* messages = [system, user] (agent.py:143-152): a new list object per call
new_history(h, msgs) ==
    LET h2 == Append(h, List(msgs))
    IN  [h |-> h2, v |-> Ref(Len(h2))]

\* messages.append(m1); messages.append(m2)
append_messages(h, msgs, m1, m2) ==
    [h EXCEPT ![msgs.a] = List(@.items \o <<m1, m2>>)]

-----------------------------------------------------------------------------
(* Two runs of agent.run in one event loop, each on its own controller and its *)
(* own forest, interleaved at `await self._call_llm_non_streaming(messages)`   *)

RunIds == {1, 2}

\* The responses handled by the two runs together are explored up to this number; a
\* run that is alone in the process gets any number of plain responses besides
PairMaxEvents == 2

\* The forest of each caller: [A(tags ["x"]) [B], C]
PairForest ==
    List(<<Dict([name |-> Str("A"), tags |-> List(<<Str("x")>>),
                 children |-> List(<<Node("B")>>)]),
           Node("C")>>)

PairResponses ==
    { NoResponse,
      Response(NoFinal, Action("update_node_category", "json",
                               UpdateInput(Str("root/A"), Str("business")))),
      Response(NoFinal, Action("update_node_category", "json",
                               UpdateInput(Str("root/B"), Str("pricing")))),
      Response(NoFinal, Action("get_default_template", "json",
                               Dict([module_type |-> Str("business")]))),
      Response(Final("bad", Null), NoAction),
      Response(Final("json", List(<<Dict([children |-> List(<<>>)])>>)), NoAction),
      Response(Final("json", List(<<Node("Root")>>)), NoAction) }

\* The local variables of a run that has not started
NewRun(forest) ==
    [pc |-> "start", extraction_result |-> forest, messages |-> Null,
     current_structure |-> Null, iteration |-> 0, response |-> NoResponse,
     result |-> Null, log |-> <<>>, exc |-> "none"]

\* Object 1 stands for the process-wide state that the package touches (sys.path,
\* written at import); the forests of the two callers are separate objects.
InitPair ==
    /\ RunOff
    /\ ValidateOff
    /\ UpdateOff
    /\ ClassifyOff
    /\ LET h0 == <<List(<<>>)>>
           f1 == Store(h0, PairForest)
           f2 == Store(f1.h, PairForest)
       IN  /\ mem = f2.h
           /\ runs = [i \in RunIds |-> NewRun(IF i = 1 THEN f1.v ELSE f2.v)]
    /\ pevents = 0

\* agent.run up to the first backend call (agent.py:143-167)
PairStart(i) ==
    /\ runs[i].pc = "start"
    /\ LET r  == runs[i]
           hs == new_history(mem, <<SystemMessage,
                                    InitialMessage(Deref(mem, r.extraction_result))>>)
           cs == list_copy(hs.h, r.extraction_result)
       IN  /\ mem' = cs.h
           /\ runs' = [runs EXCEPT ![i] =
                          [r EXCEPT !.pc = "calling", !.messages = hs.v,
                                    !.current_structure = cs.v, !.iteration = 1]]
    /\ UNCHANGED pevents
    /\ UNCHANGED <<runVars, valVars, updVars, clsVars>>

\* The loop goes on after the two appends, or ends at the cap (agent.py:248-252)
next_iteration(r, resp) ==
    IF has_next_iteration(r.iteration)
    THEN [r EXCEPT !.response = resp, !.iteration = @ + 1]
    ELSE [r EXCEPT !.response = resp, !.pc = "done",
                   !.result = r.current_structure, !.log = MaxIterationsLog]

\* Whether a response counts against PairMaxEvents
Counted(resp) == resp # NoResponse \/ \A j \in RunIds : runs[j].pc # "idle"

\* One iteration of run i from the response of its backend call on
\* (agent.py:170-246)
PairHandle(i, resp) ==
    /\ runs[i].pc = "calling"
    /\ Counted(resp) => pevents < PairMaxEvents
    /\ pevents' = IF Counted(resp) THEN pevents + 1 ELSE pevents
    /\ LET r   == runs[i]
           fs  == extract_final_answer(resp)
           act == parse_action(resp)
           feedback(content) ==
               append_messages(mem, r.messages, AssistantMessage(resp), UserMessage(content))
       IN  IF resp.final.marker
           THEN IF final_answer_accepted(fs)
                THEN \* json.loads built the returned structure as new objects
                     /\ mem' = Store(mem, fs).h
                     /\ runs' = [runs EXCEPT ![i] =
                                    [r EXCEPT !.response = resp, !.pc = "done",
                                              !.result = Store(mem, fs).v,
                                              !.log = AgentDoneLog(r.iteration)]]
                ELSE /\ mem' = feedback(IF Truthy(fs)
                                        THEN ValidationFeedback(validate_structure(fs))
                                        ELSE ParseFeedback)
                     /\ runs' = [runs EXCEPT ![i] = next_iteration(r, resp)]
           ELSE IF act.action_name = ""
           THEN /\ mem' = feedback(ContinueFeedback)
                /\ runs' = [runs EXCEPT ![i] = next_iteration(r, resp)]
           ELSE LET out == execute_tool_obj(mem, act.action_name, act.action_input,
                                            r.current_structure)
                IN  /\ mem' = append_messages(out.h, r.messages, AssistantMessage(resp),
                                 UserMessage(ObservationFeedback(out.observation)))
                    /\ runs' = [runs EXCEPT ![i] = next_iteration(r, resp)]
    /\ UNCHANGED <<runVars, valVars, updVars, clsVars>>

\* _call_llm_non_streaming raises (agent.py:292-302): the exception leaves run
PairBackendFails(i) ==
    /\ runs[i].pc = "calling"
    /\ runs' = [runs EXCEPT ![i] = [@ EXCEPT !.pc = "raised", !.exc = "BackendError"]]
    /\ UNCHANGED <<mem, pevents>>
    /\ UNCHANGED <<runVars, valVars, updVars, clsVars>>

NextPair ==
    \/ \E i \in RunIds : PairStart(i)
    \/ \E i \in RunIds : \E resp \in PairResponses : PairHandle(i, resp)
    \/ \E i \in RunIds : PairBackendFails(i)

SpecPair == InitPair /\ [][NextPair]_vars

\* One run alone in the process: no second caller
InitSolo ==
    /\ RunOff
    /\ ValidateOff
    /\ UpdateOff
    /\ ClassifyOff
    /\ LET f1 == Store(<<List(<<>>)>>, PairForest)
       IN  /\ mem = f1.h
           /\ runs = [i \in RunIds |->
                        IF i = 1 THEN NewRun(f1.v)
                        ELSE [NewRun(Null) EXCEPT !.pc = "idle"]]
    /\ pevents = 0

SpecSolo == InitSolo /\ [][NextPair]_vars

-----------------------------------------------------------------------------
(* Properties of the Validator *)

RECURSIVE Positions(_)
\* The nodes reachable in `node`, each as its sequence of child indices from `node`
Positions(node) ==
    {<<>>} \cup
    (IF IsDict(node) /\ HasKey(node, "children") /\ IsList(node.m["children"])
     THEN UNION {{<<i>> \o p : p \in Positions(node.m["children"].items[i])} :
                    i \in 1..Len(node.m["children"].items)}
     ELSE {})

Rules == {"node must be an object", "missing name", "children must be a list"}

\* The rules of spec 4.2 that the node itself breaks
RuleViolations(node) ==
    IF ~IsDict(node) THEN {"node must be an object"}
    ELSE (IF HasKey(node, "name") THEN {} ELSE {"missing name"})
         \cup (IF HasKey(node, "children") /\ ~IsList(node.m["children"])
               THEN {"children must be a list"} ELSE {})

\* Every (top-level index, position, rule) at which a candidate list breaks a rule
ForestViolations(c) ==
    UNION {UNION {{<<i, p, r>> : r \in RuleViolations(node_at(c.items[i], p))} :
                     p \in Positions(c.items[i])} :
              i \in 1..Len(c.items)}

\* A non-empty sequence whose reachable nodes are mappings with a name and, when
\* children is present, a sequence as children
WellFormedCandidate(c) ==
    /\ IsList(c)
    /\ c.items # <<>>
    /\ \A i \in 1..Len(c.items) : \A p \in Positions(c.items[i]) :
          LET n == node_at(c.items[i], p)
          IN  /\ IsDict(n)
              /\ HasKey(n, "name")
              /\ HasKey(n, "children") => IsList(n.m["children"])

ErrorsWithRule(r) == {k \in 1..Len(errors) : errors[k].rule = r}

\* C10: the Validator's result is empty exactly for a well-formed candidate, and
\* otherwise holds one error per violating node and rule, at every depth: a node
\* with an error does not hide the errors of the nodes below it.
C10_ValidatorReportsAllViolations ==
    vpc = "validated" =>
        /\ (errors = <<>>) <=> WellFormedCandidate(candidate)
        /\ ~IsList(candidate) =>
               errors = << Err(<<>>, "structure must be a list") >>
        /\ (IsList(candidate) /\ candidate.items = <<>>) =>
               errors = << Err(<<>>, "structure must not be empty") >>
        /\ (IsList(candidate) /\ candidate.items # <<>>) =>
               /\ Len(errors) = Cardinality(ForestViolations(candidate))
               /\ \A r \in Rules :
                     Cardinality(ErrorsWithRule(r)) =
                     Cardinality({v \in ForestViolations(candidate) : v[3] = r})

\* A node without name whose child has an error too: both are reported
C10_Witness ==
    /\ vpc = "validated"
    /\ \E j, k \in 1..Len(errors) :
          /\ errors[j].rule = "missing name"
          /\ Len(errors[j].path) < Len(errors[k].path)
          /\ SubSeq(errors[k].path, 1, Len(errors[j].path)) = errors[j].path

-----------------------------------------------------------------------------
(* Properties of the repair run *)

Terminal == pc \in {"done", "raised"}

InLoop == pc \in {"calling", "sleeping"}

LastLog == result.log[Len(result.log)]

\* The history after ten iterations that all went on to the next one
CapLength == 2 * max_iterations + 2

\* The responses appended to the history so far
AssistantResponses ==
    {messages[k].content.response :
        k \in {j \in 1..Len(messages) : messages[j].role = "assistant"}}

\* Neither the Final Answer marker nor an Action
PlainResponse(r) == ~r.final.marker /\ r.action.name = ""

\* The kinds of the corrective and observation messages appended so far
FeedbackKinds ==
    {messages[k].content.kind :
        k \in {j \in 3..Len(messages) : messages[j].role = "user"}}

\* A list whose nodes _deep_copy can copy: mappings whose children, when present and
\* not empty, are a list
CopyableForest(f) ==
    /\ IsList(f)
    /\ \A i \in 1..Len(f.items) : \A p \in Positions(f.items[i]) :
          LET n == node_at(f.items[i], p)
          IN  /\ IsDict(n)
              /\ HasKey(n, "children") =>
                     (IsList(n.m["children"]) \/ ~Truthy(n.m["children"]))

\* An update_node_category request whose node_path is neither a text nor null
NonTextPath(r) ==
    /\ r.action.name = "update_node_category"
    /\ r.action.match = "json"
    /\ HasKey(r.action.value, "node_path")
    /\ r.action.value.m["node_path"].t \notin {"str", "null"}

\* C1: the loop runs at most max_iterations (10) times with one backend call per
\* iteration, whatever the responses are: while a call is pending the history holds
\* two messages per iteration, and once the tenth iteration has appended its two
\* messages the run has returned.
C1_IterationCap ==
    /\ iteration \in 0..max_iterations
    /\ calls = iteration
    /\ InLoop => (iteration >= 1 /\ Len(messages) = 2 * iteration)
    /\ Len(messages) <= CapLength
    /\ Len(messages) = CapLength =>
           (pc = "done" /\ result.returned /\ iteration = max_iterations)

\* The cap is reached in a run in which a tool was executed
C1_Witness ==
    /\ pc = "done"
    /\ Len(messages) = CapLength
    /\ tool_runs = 1
    /\ "observation" \in FeedbackKinds

C2_Returned ==
    (pc = "done" /\ result.source = "agent") =>
        IF LastLog.line = "agent_done"
        THEN /\ response.final.marker
             /\ response.final.match = "json"
             /\ result.compensated_structure = extract_final_answer(response)
             /\ validate_structure(result.compensated_structure) = <<>>
        ELSE result.compensated_structure = current_structure

C2_Rejected ==
    (pc = "calling" /\ response'.final.marker /\ Len(messages') = Len(messages) + 2) =>
        /\ \/ ~Truthy(extract_final_answer(response'))
           \/ validate_structure(extract_final_answer(response')) # <<>>
        /\ current_structure' = current_structure
        /\ messages'[Len(messages')].role = "user"
        /\ messages'[Len(messages')].content.kind \in {"validation_error", "parse_error"}
        /\ pc' \in {"calling", "done"}
        /\ pc' = "done" => result'.compensated_structure = current_structure

\* C2: a Final Answer structure is returned only if it parsed and the Validator
\* reported no error for it; a rejected candidate leaves the current structure as it
\* is, a corrective user message is appended and the loop goes on, and a return at
\* the cap hands out the current structure.
C2_OnlyValidatedFinalReturned == []C2_Returned /\ [][C2_Rejected]_vars

\* The cap is reached after the Validator rejected a candidate
C2_Witness ==
    /\ pc = "done"
    /\ LastLog.line = "max_iterations"
    /\ "validation_error" \in FeedbackKinds
    /\ result.compensated_structure = extraction_result

\* C3: the result is tagged default_template exactly for an absent or empty
\* extraction_result; it then holds the business, technical and pricing templates
\* in this order and no backend call was made.  Any other result is tagged agent
\* and holds the controller's structure.
C3_OrchestratorDecision ==
    /\ extraction_result \in {Null, List(<<>>)} => (calls = 0 /\ pc \in {"start", "done"})
    /\ pc = "done" =>
        /\ result.source = "default_template" <=> extraction_result \in {Null, List(<<>>)}
        /\ result.source = "default_template" =>
              /\ result.compensated_structure =
                     List(<<templates["business_template"],
                            templates["technical_template"],
                            templates["pricing_template"]>>)
              /\ messages = <<>>
        /\ result.source # "default_template" =>
              /\ result.source = "agent"
              /\ calls >= 1
              /\ result.compensated_structure =
                     IF LastLog.line = "agent_done" THEN extract_final_answer(response)
                     ELSE current_structure

C3_Witness ==
    /\ pc = "done"
    /\ extraction_result = List(<<>>)
    /\ result.source = "default_template"
    /\ Len(result.compensated_structure.items) = 3

\* C4: a run whose responses all hold neither the marker nor an Action ends after
\* exactly 10 iterations and 10 backend calls and returns the input forest.
C4_NoActionRunsToCap ==
    (/\ pc = "done"
     /\ result.source = "agent"
     /\ PlainResponse(response)
     /\ \A r \in AssistantResponses : PlainResponse(r)) =>
        /\ iteration = max_iterations
        /\ calls = max_iterations
        /\ Len(messages) = CapLength
        /\ tool_runs = 0
        /\ result.compensated_structure = extraction_result

\* Ten responses without marker and action, on a forest with nested nodes
C4_Witness ==
    /\ pc = "done"
    /\ Len(messages) = CapLength
    /\ FeedbackKinds = {"continue"}
    /\ extraction_result = Forest1

\* The first response the backend gave (the pending one while none was appended)
FirstResponse == IF Len(messages) >= 3 THEN messages[3].content.response ELSE response

\* C5: when the first response holds a Final Answer that parses and is well formed,
\* the run ends in iteration 1 without a tool execution and returns the parsed
\* forest, tagged agent.
C5_ImmediateFinalAnswer ==
    (/\ calls >= 1
     /\ FirstResponse.final.marker
     /\ FirstResponse.final.match = "json"
     /\ WellFormedCandidate(extract_final_answer(FirstResponse))) =>
        /\ pc = "done"
        /\ iteration = 1
        /\ calls = 1
        /\ tool_runs = 0
        /\ Len(messages) = 2
        /\ result.source = "agent"
        /\ result.compensated_structure = extract_final_answer(FirstResponse)
        /\ LastLog = [line |-> "agent_done", n |-> 1]

C5_Witness ==
    /\ pc = "done"
    /\ iteration = 1
    /\ response = Response(Final("json", List(<<Node("Root")>>)), NoAction)
    /\ result.compensated_structure = List(<<Node("Root")>>)
    /\ result.source = "agent"

\* C6: an agent result carries the max_iterations entry as the last entry of its log
\* exactly when the run ended at the cap; a validated completion carries the
\* agent_done entry instead.  Both are tagged agent.
C6_CapResultIsMarked ==
    (pc = "done" /\ result.source = "agent") =>
        /\ (Len(messages) = CapLength) <=>
               (LastLog = [line |-> "max_iterations", n |-> max_iterations])
        /\ (Len(messages) < CapLength) <=>
               (LastLog = [line |-> "agent_done", n |-> iteration])
        /\ (Len(messages) < CapLength) =>
               validate_structure(result.compensated_structure) = <<>>

\* A cap-terminated result, in a run whose last response was a rejected Final Answer
C6_Witness ==
    /\ pc = "done"
    /\ result.source = "agent"
    /\ LastLog.line = "max_iterations"
    /\ response.final.marker

C8_Attempts ==
    /\ attempt \in 0..max_retries
    /\ InLoop <=> attempt >= 1
    /\ pc = "sleeping" => attempt < max_retries

C8_Retry ==
    /\ (pc = "calling" /\ pc' = "sleeping") =>
           /\ attempt < max_retries
           /\ UNCHANGED <<attempt, iteration, calls, messages, current_structure,
                          result, exc>>
    /\ pc = "sleeping" =>
           /\ pc' = "calling"
           /\ attempt' = attempt + 1
           /\ UNCHANGED <<iteration, calls, messages, current_structure, result, exc>>
    /\ (exc = "none" /\ exc' = "TransientError") =>
           /\ pc = "calling"
           /\ attempt = max_retries
           /\ pc' = "raised"
           /\ ~result'.returned
    /\ (pc = "calling" /\ iteration' # iteration) =>
           /\ iteration' = iteration + 1
           /\ calls' = calls + 1
           /\ attempt' = 1
           /\ Len(messages') = Len(messages) + 2
    /\ (pc = "calling" /\ pc' = "done") => result'.returned

\* C8: a backend call is attempted at most max_retries (3) times; a transient
\* failure of attempt 1 or 2 leads to the delay and then to the next attempt of the
\* same call, in the same iteration; a transient failure of attempt 3 leaves the run
\* as an exception; the iteration counter moves only when a response was handled.
C8_RetryPolicy == []C8_Attempts /\ [][C8_Retry]_vars

\* The third attempt of the call of the tenth iteration is in flight
C8_Witness ==
    /\ pc = "calling"
    /\ attempt = max_retries
    /\ iteration = max_iterations
    /\ calls = max_iterations

\* Missing (None) or malformed: no list, or a list with a node that is no mapping
InputError(forest) == forest = Null \/ ~CopyableForest(forest)

\* The statement of C9: for an input error the run falls back to the default
\* templates (it never reaches the backend) and never raises.
C9_InputErrorFallsBack ==
    InputError(extraction_result) =>
        /\ pc \in {"start", "done"}
        /\ pc = "done" => result.source = "default_template"

-----------------------------------------------------------------------------
(* Names of accepted nodes *)

\* A name that is a text of at least one character
NonEmptyName(n) == IsDict(n) /\ HasKey(n, "name") /\ n.m["name"].t = "str" /\ n.m["name"].s # ""

\* C11: every node of a structure that the Validator accepts (error list empty) has
\* a non-empty name.
C11_AcceptedNamesNonEmpty ==
    (vpc = "validated" /\ errors = <<>>) =>
        \A i \in 1..Len(candidate.items) : \A p \in Positions(candidate.items[i]) :
            NonEmptyName(node_at(candidate.items[i], p))


-----------------------------------------------------------------------------
(* Properties of update_node_category *)

IsPrefix(a, b) == Len(a) <= Len(b) /\ SubSeq(b, 1, Len(a)) = a

\* The fields of a node other than children
Own(n) == [k \in DOMAIN n.m \ {"children"} |-> n.m[k]]

\* The index of the first child of n that is named `name`; 0 if there is none
FirstChildNamed(n, name) ==
    LET hits == IF IsDict(n) /\ HasKey(n, "children") /\ IsList(n.m["children"])
                THEN {i \in 1..Len(n.m["children"].items) :
                         LET c == n.m["children"].items[i]
                         IN  IsDict(c) /\ HasKey(c, "name") /\ c.m["name"] = Str(name)}
                ELSE {}
    IN  IF hits = {} THEN 0 ELSE CHOOSE i \in hits : \A j \in hits : i <= j

\* The node that root/A/B designates in a structure: the first B of the first A
PositionAB(s) ==
    LET i == FirstChildNamed(s, "A")
        j == IF i = 0 THEN 0 ELSE FirstChildNamed(s.m["children"].items[i], "B")
    IN  IF j = 0 THEN <<>> ELSE <<i, j>>

\* A returned call at root/A/B, with a valid category, on a structure in which the
\* path designates a node
UpdatedAB ==
    /\ upc = "returned"
    /\ upd_in.node_path = Str("root/A/B")
    /\ upd_in.category \in ValidToolCategories
    /\ PositionAB(upd_in.structure) # <<>>

\* The statement of C12: the call sets the category on B and on every descendant of
\* B, and every node outside B's subtree has exactly the fields and values it had:
\* the same fields other than children, and, unless it is an ancestor of B, the same
\* children too.
C12_UpdateFrameExact ==
    UpdatedAB =>
        LET before == upd_in.structure
            after  == upd_out.updated_structure
            B      == PositionAB(before)
        IN  /\ upd_out.success
            /\ \A p \in Positions(after) :
                   IsPrefix(B, p) => node_at(after, p).m["category"] = upd_in.category
            /\ \A p \in Positions(before) :
                   ~IsPrefix(B, p) =>
                       /\ Own(node_at(after, p)) = Own(node_at(before, p))
                       /\ ~IsPrefix(p, B) => node_at(after, p) = node_at(before, p)


-----------------------------------------------------------------------------
(* Tool resolution errors *)

ToolNames == {"get_default_template", "update_node_category"}

\* node_path designates a node of the forest
Resolves(forest, path) ==
    /\ path.t = "str"
    /\ CopyableForest(forest)
    /\ LET full == Dict([name |-> Str("root"), children |-> forest])
       IN  find_node_by_path(deep_copy(full), path.s).found

\* A request without marker for an unknown tool, or for update_node_category with
\* both arguments given and a category outside business/technical/pricing or a
\* node_path that designates no node of the forest
ToolResolutionError(r, forest) ==
    /\ ~r.final.marker
    /\ r.action.name # ""
    /\ \/ r.action.name \notin ToolNames
       \/ /\ r.action.name = "update_node_category"
          /\ LET arg == parse_action(r).action_input
                 path == Get(arg, "node_path", Null)
                 cat  == Get(arg, "category", Null)
             IN  /\ Truthy(path)
                 /\ Truthy(cat)
                 /\ cat \notin ValidToolCategories \/ ~Resolves(forest, path)

C13_Step ==
    (pc = "calling" /\ tool_runs' = tool_runs + 1
       /\ CopyableForest(current_structure)
       /\ ToolResolutionError(response', current_structure)) =>
        /\ exc' = "none"
        /\ pc' \in {"calling", "done"}
        /\ current_structure' = current_structure
        /\ messages' = messages \o
               <<AssistantMessage(response'), messages'[Len(messages')]>>
        /\ messages'[Len(messages')].role = "user"
        /\ messages'[Len(messages')].content.kind = "observation"
        /\ messages'[Len(messages')].content.observation.kind = "error"
        /\ pc' = "calling" => iteration' = iteration + 1
        /\ pc' = "done" => (iteration = max_iterations /\ result'.returned)

\* The statement of C13: a request for an unknown tool, an update_node_category
\* whose node_path does not resolve or whose category is invalid raises nothing,
\* leaves the current structure unchanged, appends an error observation and goes on
\* to the next iteration (to the return at the cap after the tenth); here for the
\* forests whose nodes are all mappings.
C13_ToolErrorsAreObservations == [][C13_Step]_vars


-----------------------------------------------------------------------------
(* Properties of the classifier.  A forest is looked at as the JSON value it  *)
(* stands for; its nodes are named by their positions, the sequences of child *)
(* indices from the top level down.                                           *)

ForestRoot(F) == Dict([children |-> F])

NodePositions(F) == Positions(ForestRoot(F)) \ {<<>>}

NodeAt(F, p) == node_at(ForestRoot(F), p)

\* The category of spec 4.5: the field, or unknown when it is absent or outside the
\* five known values
Resolved(n) ==
    IF IsDict(n) /\ HasKey(n, "category") /\ n.m["category"] \in valid_categories
    THEN n.m["category"]
    ELSE Str("unknown")

IncludedIn(n, T) == Resolved(n) \in {Str(T), Str("mixed"), Str("unknown")}

\* The nodes that are included for T together with all their ancestors
IncludedPositions(F, T) ==
    {p \in NodePositions(F) :
        \A k \in 1..Len(p) : IncludedIn(NodeAt(F, SubSeq(p, 1, k)), T)}

\* Where an included node stands in the view: at each level, its rank among the
\* included children of its parent
ViewPosition(F, p, T) ==
    [k \in 1..Len(p) |->
        Cardinality({j \in 1..p[k] :
                        IncludedIn(NodeAt(F, Append(SubSeq(p, 1, k - 1), j)), T)})]

\* A list in which every reachable node is a mapping with a name whose children, if
\* present, is a list or null
CatalogForest(F) ==
    /\ IsList(F)
    /\ \A p \in NodePositions(F) :
          LET n == NodeAt(F, p)
          IN  /\ IsDict(n)
              /\ HasKey(n, "name")
              /\ HasKey(n, "children") => n.m["children"].t \in {"list", "null"}

\* The view for T is the input with exactly the included positions, in their order,
\* each node with the non-children fields of the input node
ViewIsFilteredInput(F, V, T) ==
    /\ NodePositions(V) = {ViewPosition(F, p, T) : p \in IncludedPositions(F, T)}
    /\ \A p \in IncludedPositions(F, T) :
          Own(NodeAt(V, ViewPosition(F, p, T))) = Own(NodeAt(F, p))

C14_Step ==
    (cpc = "ready" /\ cpc' # "ready" /\ CatalogForest(Deref(heap, cls_in))) =>
        /\ cpc' = "split"
        /\ \A T \in TargetTypes :
              ViewIsFilteredInput(Deref(heap, cls_in), Deref(heap', cls_out'[T]), T)

\* The statement of C14: for every forest (of named mapping nodes) and every target
\* T, the output for T holds exactly the nodes whose resolved category (unknown
\* when the field is absent or outside the five known values) is T, mixed or
\* unknown and whose ancestors are all such nodes, in their order and with all
\* their non-children fields.
C14_ViewIsTheIncludedNodes == [][C14_Step]_vars


\* The depth of a position is its length; top-level nodes have depth 1
NodesAtDepth(F, d) == {p \in NodePositions(F) : Len(p) = d}

\* A node whose category is mixed or that has no category
MixedOrUnset(n) ==
    IsDict(n) /\ (HasKey(n, "category") => n.m["category"] = Str("mixed"))

\* The statement of C15: for all forests F, every node of F whose category is mixed
\* or unset, at any depth, appears as a copy (a node of the same depth with the same
\* non-children fields) in all three outputs of classify_and_split(F).  Stated of
\* the calls that return.
C15_MixedAndUnsetInAllViews ==
    cpc = "split" =>
        \A p \in NodePositions(Deref(heap, cls_in)) :
            MixedOrUnset(NodeAt(Deref(heap, cls_in), p)) =>
                \A T \in TargetTypes :
                    \E q \in NodesAtDepth(Deref(heap, cls_out[T]), Len(p)) :
                        Own(NodeAt(Deref(heap, cls_out[T]), q))
                            = Own(NodeAt(Deref(heap, cls_in), p))


RECURSIVE AddrAt(_, _, _)
\* The address of the node object at position p below the list object `list`
AddrAt(h, list, p) ==
    LET n == h[list.a].items[p[1]]
    IN  IF Len(p) = 1 THEN n.a ELSE AddrAt(h, h[n.a].m["children"], Tail(p))

\* No node object stands at two positions of the view
NoNodeTwice(h, view) ==
    \A p, q \in NodePositions(Deref(h, view)) :
        AddrAt(h, view, p) = AddrAt(h, view, q) => p = q

C16_Step ==
    (cpc = "ready" /\ cpc' = "split") =>
        \A T \in TargetTypes :
            /\ \A d \in {Len(p) : p \in NodePositions(Deref(heap', cls_out'[T]))} :
                  Cardinality(NodesAtDepth(Deref(heap', cls_out'[T]), d))
                      <= Cardinality(NodesAtDepth(Deref(heap, cls_in), d))
            /\ NoNodeTwice(heap', cls_out'[T])

\* C16: for all forests F and each of the three views produced by
\* classify_and_split(F), the number of nodes of the view at every depth is at most
\* the number of nodes of F at that depth, and no node occurs twice in one view: the
\* classifier only filters.
C16_ViewsOnlyFilter == [][C16_Step]_vars

\* A call returned three views of a forest with nodes at three depths, one view
\* having fewer nodes than the forest at depth 2 and another as many
C16_Witness ==
    /\ cpc = "split"
    /\ NodesAtDepth(Deref(heap, cls_in), 3) # {}
    /\ \E T \in TargetTypes :
          Cardinality(NodesAtDepth(Deref(heap, cls_out[T]), 2))
              < Cardinality(NodesAtDepth(Deref(heap, cls_in), 2))
    /\ \E T \in TargetTypes :
          /\ NodesAtDepth(Deref(heap, cls_out[T]), 3) # {}
          /\ Cardinality(NodesAtDepth(Deref(heap, cls_out[T]), 2))
                = Cardinality(NodesAtDepth(Deref(heap, cls_in), 2))


C17_Step ==
    (cpc = "split" /\ cpc' = "again") =>
        /\ cls_again'.raised = "none"
        /\ Deref(heap', cls_again'.v) = Deref(heap, cls_out[cls_again'.target_type])

\* C17: extracting a view is idempotent: for every forest F and target T,
\* extract_view(extract_view(F, T), T) raises nothing and equals extract_view(F, T),
\* whenever extract_view(F, T) returns.
C17_ExtractViewIdempotent == [][C17_Step]_vars

\* extract_view was run again on a view with nodes at two depths that is smaller
\* than the forest it was extracted from
C17_Witness ==
    /\ cpc = "again"
    /\ cls_again.raised = "none"
    /\ NodesAtDepth(Deref(heap, cls_again.v), 2) # {}
    /\ Cardinality(NodePositions(Deref(heap, cls_again.v)))
          < Cardinality(NodePositions(Deref(heap, cls_in)))


\* The children of position p that are included for T
IncludedChildren(F, p, T) ==
    {c \in IncludedPositions(F, T) : Len(c) = Len(p) + 1 /\ SubSeq(c, 1, Len(p)) = p}

C18_Step ==
    (cpc = "ready" /\ cpc' = "split") =>
        \A T \in TargetTypes :
            /\ \A q \in NodePositions(Deref(heap', cls_out'[T])) :
                  /\ HasKey(NodeAt(Deref(heap', cls_out'[T]), q), "children")
                  /\ IsList(NodeAt(Deref(heap', cls_out'[T]), q).m["children"])
            /\ \A p \in IncludedPositions(Deref(heap, cls_in), T) :
                  Len(NodeAt(Deref(heap', cls_out'[T]),
                             ViewPosition(Deref(heap, cls_in), p, T)).m["children"].items)
                      = Cardinality(IncludedChildren(Deref(heap, cls_in), p, T))

C19_Step ==
    /\ cls_in' = cls_in
    /\ Len(heap') >= Len(heap)
    /\ \A a \in Reach(heap, cls_in) : heap'[a] = heap[a]
    /\ Deref(heap', cls_in') = Deref(heap, cls_in)

\* C19: classify_and_split never mutates its input: after the call (returned or
\* raised) the input list and every object reachable from it hold exactly the
\* fields, values, children and order they held before, for every input forest.
C19_InputNeverMutated == [][C19_Step]_vars

\* A call returned a view with nodes at two depths, so nodes were copied and
\* appended and children fields were set
C19_Witness ==
    /\ cpc = "split"
    /\ \E T \in TargetTypes : NodesAtDepth(Deref(heap, cls_out[T]), 2) # {}
    /\ \E T \in TargetTypes :
          Cardinality(NodePositions(Deref(heap, cls_out[T])))
              < Cardinality(NodePositions(Deref(heap, cls_in)))


\* The mutable objects (lists, dicts) reachable from the input and from each view
Owners == {"input"} \cup TargetTypes

Owned(o) == IF o = "input" THEN Reach(heap, cls_in) ELSE Reach(heap, cls_out[o])

\* C20: the three forests returned by classify_and_split are independent: no
\* mutable object (a node, a children list, or a list or mapping held in a field of
\* a node) is reachable from two views or from a view and the input forest, so a
\* modification made through one of them is never visible through another.
C20_ViewsShareNothing ==
    cpc = "split" =>
        \A o1, o2 \in Owners : o1 # o2 => Owned(o1) \cap Owned(o2) = {}

\* The nodes themselves are separate copies: no dict object that holds a name is
\* reachable from two of the four forests
C20_NodesAreSeparateCopies ==
    cpc = "split" =>
        \A o1, o2 \in Owners : o1 # o2 =>
            \A a \in Owned(o1) \cap Owned(o2) : heap[a].t = "list"


\* The scenario of spec 4.5: one parent without a category field, with one child of
\* category business (M and L stand for the two names)
ScenarioForest ==
    List(<<CatNode(Str("M"), Absent,
                   List(<<CatNode(Str("L"), Str("business"), Absent)>>))>>)

C21_Original_Step ==
    (cpc = "ready" /\ cpc' # "ready" /\ Deref(heap, cls_in) = ScenarioForest) =>
        /\ cpc' = "split"
        /\ Deref(heap', cls_out'.technical)
              = List(<<CatNode(Str("M"), Str("unknown"), List(<<>>))>>)

\* The statement of C21 as the specification has it: the scenario forest classified
\* for target technical yields one node with the parent's name, category "unknown"
\* and children [].
C21_ScenarioCarriesUnknown == [][C21_Original_Step]_vars

C21_Step ==
    (cpc = "ready" /\ cpc' # "ready" /\ Deref(heap, cls_in) = ScenarioForest) =>
        /\ cpc' = "split"
        /\ Deref(heap', cls_out'.technical)
              = List(<<CatNode(Str("M"), Absent, List(<<>>))>>)

\* C21, amended: the scenario forest classified for target technical yields a single
\* node that has the parent's name and children [] and, like the parent, no category
\* field: the parent is included, the child is pruned, and no category value is
\* written to the output node.
C21_ScenarioKeepsCategoryAbsent == [][C21_Step]_vars

\* classify_and_split returned on the scenario forest
C21_Witness ==
    /\ cpc = "split"
    /\ Deref(heap, cls_in) = ScenarioForest
    /\ Deref(heap, cls_out.technical) # Deref(heap, cls_out.business)


-----------------------------------------------------------------------------
(* Properties of one iteration of the repair loop *)

\* A step in which agent.run handles the response of the pending backend call
\* (response' is that response): it appends to the history, returns, or runs a tool
Handled ==
    /\ pc = "calling"
    /\ \/ Len(messages') > Len(messages)
       \/ pc' = "done"
       \/ tool_runs' # tool_runs

\* The marker, and a JSON payload that is an array or an object with a children key
AcceptedShape(r) ==
    /\ r.final.marker
    /\ r.final.match = "json"
    /\ \/ IsList(r.final.value)
       \/ IsDict(r.final.value) /\ HasKey(r.final.value, "children")

LastMessage(ms) == ms[Len(ms)]

C23_Step ==
    (Handled /\ AcceptedShape(response')) =>
        (validate_structure(extract_final_answer(response')) # <<>> =>
            /\ Len(messages') = Len(messages) + 2
            /\ LastMessage(messages')
                  = UserMessage(ValidationFeedback(
                        validate_structure(extract_final_answer(response')))))

\* The statement of C23: whenever a response holds the terminal marker and its JSON
\* payload parses to an array or to an object with a children key, the Validator is
\* run on the parsed value and, if it fails, the corrective message appended to the
\* history carries the Validator's error list; for an empty array this is the
\* must-not-be-empty error.
C23_RejectionCarriesValidatorErrors == [][C23_Step]_vars


C24_Step ==
    Handled =>
        /\ tool_runs' # tool_runs => ~response'.final.marker
        /\ response'.final.marker =>
              /\ tool_runs' = tool_runs
              /\ current_structure' = current_structure
              /\ Len(messages') > Len(messages) =>
                    LastMessage(messages').content.kind
                        \in {"validation_error", "parse_error"}

\* C24: an action request is parsed and a tool executed only for a response that
\* holds no terminal marker: when a response holds both a Final Answer marker and an
\* Action, no tool is executed in that iteration and the current structure is
\* unchanged by it, whether the Final Answer is accepted, fails parsing or fails
\* validation.
C24_MarkerSuppressesAction == [][C24_Step]_vars

\* A response with the marker and an Action whose Final Answer failed validation
\* was handled, and the loop goes on without any tool run
C24_Witness ==
    /\ pc = "calling"
    /\ response.final.marker
    /\ response.action.name = "update_node_category"
    /\ Len(messages) = 4
    /\ LastMessage(messages).content.kind = "validation_error"
    /\ tool_runs = 0


C25_Shape ==
    /\ messages # <<>> =>
          /\ Len(messages) >= 2
          /\ messages[1] = SystemMessage
          /\ messages[2] = InitialMessage(extraction_result)
          /\ \A k \in 3..Len(messages) :
                messages[k].role = IF k % 2 = 1 THEN "assistant" ELSE "user"
    /\ InLoop =>
          /\ Len(messages) = 2 * calls
          /\ LastMessage(messages).role = "user"

C25_Step ==
    /\ IsPrefix(messages, messages')
    /\ (Handled /\ pc' = "calling") =>
          /\ Len(messages') = Len(messages) + 2
          /\ messages'[Len(messages) + 1] = AssistantMessage(response')
          /\ messages'[Len(messages) + 2].role = "user"
          /\ messages'[Len(messages) + 2].content.kind
                \in {"validation_error", "parse_error", "continue", "observation"}
          /\ calls' = calls + 1
    /\ Len(messages') \in {Len(messages), Len(messages) + 2}

\* C25: the conversation history is append-only: it starts with the system message
\* followed by the initial user message, no message is ever removed or modified, and
\* every non-terminal iteration appends exactly two messages, the backend's response
\* as an assistant message and then one user message (observation or corrective
\* instruction); hence before the k-th backend call the history has 2k messages,
\* roles alternate user/assistant after the system message, and the backend is
\* always called with a history that ends with a user message.
C25_HistoryAppendOnly == []C25_Shape /\ [][C25_Step]_vars

\* The third backend call is pending after an iteration that appended an observation
\* and one that appended a corrective instruction
C25_Witness ==
    /\ pc = "calling"
    /\ calls = 3
    /\ Len(messages) = 6
    /\ "observation" \in FeedbackKinds
    /\ "continue" \in FeedbackKinds


-----------------------------------------------------------------------------
(* Properties of path resolution in update_node_category *)

RECURSIVE FirstMatchPath(_, _, _, _)
\* The position reached from n by taking, for each of names[k..], the first child of
\* that name; found is FALSE when some node on the way has no child of the name
FirstMatchPath(n, names, k, pos) ==
    IF k > Len(names) THEN [found |-> TRUE, pos |-> pos]
    ELSE LET i == FirstChildNamed(n, names[k])
         IN  IF i = 0 THEN [found |-> FALSE, pos |-> <<>>]
             ELSE FirstMatchPath(n.m["children"].items[i], names, k + 1, Append(pos, i))

\* The segments of a path that name children: all but a leading "root"
ChildNames(path) ==
    IF split(path)[1] = "root" THEN Tail(split(path)) ELSE split(path)

\* A returned call with a text path and a valid category, none of whose child names
\* is "root"
ReturnedPlainPath ==
    /\ upc = "returned"
    /\ upd_in.node_path.t = "str"
    /\ upd_in.category \in ValidToolCategories
    /\ \A k \in 1..Len(ChildNames(upd_in.node_path.s)) :
          ChildNames(upd_in.node_path.s)[k] # "root"

\* The updated structure has the nodes of `before`; the nodes at and below pos carry
\* the category, every other node carries the category value it had (null if none)
AnnotatedOnlyBelow(before, after, pos, cat) ==
    /\ Positions(after) = Positions(before)
    /\ \A p \in Positions(after) :
          /\ Get(node_at(after, p), "name", Null) = Get(node_at(before, p), "name", Str(""))
          /\ Get(node_at(after, p), "category", Null)
                = IF IsPrefix(pos, p) THEN cat
                  ELSE Get(node_at(before, p), "category", Null)

\* C26: path resolution of update_node_category matches each segment against the
\* children of the current node by exact name and takes the first match: with
\* several siblings of a segment's name the first one in sequence order is resolved
\* and annotated, the later ones and their subtrees are left unannotated, and if the
\* first match lacks the next segment the path fails to resolve even when a later
\* sibling of the same name has it (no backtracking).
C26_FirstMatchWins ==
    ReturnedPlainPath =>
        LET r == FirstMatchPath(upd_in.structure, ChildNames(upd_in.node_path.s), 1, <<>>)
        IN  /\ upd_out.success = r.found
            /\ r.found => AnnotatedOnlyBelow(upd_in.structure, upd_out.updated_structure,
                                              r.pos, upd_in.category)

\* root/A/B was resolved in a structure whose A has two children named B: the first
\* is annotated, the second, which has a child, is not
C26_Witness ==
    /\ UpdatedAB
    /\ PositionAB(upd_in.structure) = <<1, 1>>
    /\ upd_out.success
    /\ LET A == upd_out.updated_structure.m["children"].items[1]
       IN  /\ Len(A.m["children"].items) = 2
           /\ A.m["children"].items[2].m["name"] = Str("B")
           /\ A.m["children"].items[2].m["children"] # List(<<>>)
           /\ A.m["children"].items[1].m["category"] = upd_in.category
           /\ A.m["children"].items[2].m["category"] # upd_in.category
           /\ A.m["children"].items[2].m["children"].items[1].m["category"]
                 # upd_in.category


\* The statement of C30: only the first segment of the path is taken as the
\* conventional root and skipped, every later segment is matched against child
\* names, "root" included: a node named root is addressed by root/root, a path with
\* a later segment that names no child does not resolve, and a request annotates no
\* more than the subtree of the node the path designates.
C30_OnlyFirstSegmentSkipped ==
    (upc = "returned" /\ upd_in.node_path.t = "str"
                      /\ upd_in.category \in ValidToolCategories) =>
        LET r == FirstMatchPath(upd_in.structure, ChildNames(upd_in.node_path.s), 1, <<>>)
        IN  /\ upd_out.success = r.found
            /\ r.found => AnnotatedOnlyBelow(upd_in.structure, upd_out.updated_structure,
                                              r.pos, upd_in.category)


\* A response whose Final Answer JSON is malformed, or whose Action Input is no
\* valid JSON
FinalParseError(r) == r.final.marker /\ r.final.match = "bad"

ActionParseError(r) == ~r.final.marker /\ r.action.name # "" /\ r.action.match = "bad"

C27_Step ==
    (Handled /\ (FinalParseError(response') \/ ActionParseError(response'))) =>
        /\ pc' # "raised"
        /\ exc' = "none"
        /\ current_structure' = current_structure
        /\ messages' = messages \o <<AssistantMessage(response'), LastMessage(messages')>>
        /\ LastMessage(messages').role = "user"
        /\ FinalParseError(response') =>
              LastMessage(messages').content.kind = "parse_error"
        /\ ActionParseError(response') =>
              /\ LastMessage(messages').content.kind = "observation"
              /\ LastMessage(messages').content.observation.kind = "error"
        /\ IF iteration < max_iterations
           THEN pc' = "calling" /\ iteration' = iteration + 1 /\ calls' = calls + 1
           ELSE /\ pc' = "done"
                /\ iteration' = iteration
                /\ result'.compensated_structure = current_structure

\* C27: a parse error is non-fatal and costs exactly one iteration: for a response
\* whose Final Answer JSON is malformed or whose Action Input is not valid JSON, no
\* exception reaches the caller, the current structure is unchanged, the next user
\* message appended to the history reports the problem to the backend (the
\* cannot-be-parsed instruction for a Final Answer, an error observation for an
\* Action), and the iteration counter advances by exactly one (at the cap the run
\* returns the current structure).
C27_ParseErrorCostsOneIteration == [][C27_Step]_vars

\* A malformed Final Answer was handled in the first iteration and the second
\* backend call is pending
C27_Witness ==
    /\ pc = "calling"
    /\ iteration = 2
    /\ FinalParseError(response)
    /\ LastMessage(messages).content.kind = "parse_error"
    /\ current_structure = extraction_result

\* An update_node_category whose Action Input is no valid JSON was answered by an
\* error observation
C27_ActionWitness ==
    /\ pc = "calling"
    /\ iteration = 2
    /\ ActionParseError(response)
    /\ response.action.name = "update_node_category"
    /\ tool_runs = 1


-----------------------------------------------------------------------------
(* Properties of the current structure across tool calls *)

\* The fields of a node other than category and children
Payload(n) == [k \in DOMAIN n.m \ {"category", "children"} |-> n.m[k]]

\* Two forests with the same nesting and order whose nodes have the same fields and
\* values apart from category (a node without children and a node with children []
\* nest alike)
SameNodes(before, after) ==
    /\ NodePositions(after) = NodePositions(before)
    /\ \A p \in NodePositions(after) :
          Payload(NodeAt(after, p)) = Payload(NodeAt(before, p))

\* The statement of C28 for the one tool that writes the current structure: a
\* successful update_node_category, called as _execute_tool calls it, leaves the
\* controller with a forest of exactly the node names, sibling order and nesting it
\* had, only category values being changed.
C28_UpdateChangesOnlyCategories ==
    (upc = "returned" /\ upd_out.success) =>
        SameNodes(upd_in.structure.m["children"],
                  upd_out.updated_structure.m["children"])


-----------------------------------------------------------------------------
(* Properties of runs on Python objects *)

\* What run i holds, as values: its position, counter, history, current structure,
\* result, and the forest of its caller
View(i) ==
    LET r == runs[i]
    IN  [pc |-> r.pc, iteration |-> r.iteration, exc |-> r.exc,
         response |-> r.response, log |-> r.log,
         messages |-> IF r.messages = Null THEN <<>> ELSE mem[r.messages.a].items,
         current_structure |-> Deref(mem, r.current_structure),
         result |-> Deref(mem, r.result),
         forest |-> Deref(mem, r.extraction_result)]

\* agent.run alone, on values: the start, and one iteration on response resp
SoloStart(v) ==
    [v EXCEPT !.pc = "calling", !.iteration = 1,
              !.messages = <<SystemMessage, InitialMessage(v.forest)>>,
              !.current_structure = v.forest]

SoloGoOn(v, resp, content, structure) ==
    LET w == [v EXCEPT !.response = resp,
                       !.messages = @ \o <<AssistantMessage(resp), UserMessage(content)>>,
                       !.current_structure = structure]
    IN  IF has_next_iteration(v.iteration)
        THEN [w EXCEPT !.iteration = @ + 1]
        ELSE [w EXCEPT !.pc = "done", !.result = structure, !.log = MaxIterationsLog]

SoloStep(v, resp) ==
    LET fs  == extract_final_answer(resp)
        act == parse_action(resp)
        out == execute_tool(act.action_name, act.action_input, v.current_structure)
    IN  IF resp.final.marker
        THEN IF final_answer_accepted(fs)
             THEN [v EXCEPT !.response = resp, !.pc = "done", !.result = fs,
                            !.log = AgentDoneLog(v.iteration)]
             ELSE SoloGoOn(v, resp,
                           IF Truthy(fs) THEN ValidationFeedback(validate_structure(fs))
                           ELSE ParseFeedback,
                           v.current_structure)
        ELSE IF act.action_name = ""
        THEN SoloGoOn(v, resp, ContinueFeedback, v.current_structure)
        ELSE SoloGoOn(v, resp, ObservationFeedback(out.observation), out.structure)

\* What run i holds after a step of its own, had it been alone
AloneAfter(v, after) ==
    IF v.pc = "start" THEN SoloStart(v)
    ELSE IF after.pc = "raised" THEN [v EXCEPT !.pc = "raised", !.exc = "BackendError"]
    ELSE SoloStep(v, after.response)

\* The objects that run i reads or writes: those reachable from its local variables
Touched(i) ==
    Reach(mem, runs[i].extraction_result) \cup Reach(mem, runs[i].current_structure)
    \cup Reach(mem, runs[i].result)
    \cup (IF runs[i].messages = Null THEN {} ELSE {runs[i].messages.a})

C22_Step ==
    \A i \in RunIds :
        IF runs'[i] = runs[i]
        THEN /\ View(i)' = View(i)
             /\ \A a \in Touched(i) : mem'[a] = mem[a]
        ELSE View(i)' = AloneAfter(View(i), runs'[i])

\* C22: two repair runs executed concurrently, interleaving at the backend-call
\* await points, each with its own controller and its own forest, do not interfere:
\* the history, iteration counter, current structure and returned result of each
\* run are what they are when the run executes alone, and no object that one run
\* holds is written by a step of the other.
C22_RunsDoNotInterfere == [][C22_Step]_vars

\* Both runs are in their second iteration after an update_node_category that
\* succeeded in each, the calls having been interleaved
C22_Witness ==
    /\ \A i \in RunIds :
          /\ runs[i].pc = "calling"
          /\ runs[i].iteration = 2
          /\ View(i).current_structure # View(i).forest
    /\ pevents = 2

C29_Step ==
    \A i \in RunIds :
        runs[i].pc # "idle" =>
            /\ runs'[i].extraction_result = runs[i].extraction_result
            /\ \A a \in Reach(mem, runs[i].extraction_result) : mem'[a] = mem[a]
            /\ View(i)'.forest = View(i).forest

\* C29: the Repair Controller never mutates the forest object passed in by the
\* caller: through the run and after it ended (by a validated Final Answer, by the
\* iteration cap, or by a propagated backend error) the caller's list and every
\* object reachable from it have the content they had before the call, also when
\* update_node_category succeeded during the run.
C29_CallerForestNeverMutated == [][C29_Step]_vars

\* A run ended at the iteration cap after update_node_category succeeded twice: it
\* returns its own list, whose nodes are annotated copies
C29_Witness ==
    /\ runs[1].pc = "done"
    /\ runs[1].log = MaxIterationsLog
    /\ runs[1].result = runs[1].current_structure
    /\ runs[1].result # runs[1].extraction_result
    /\ View(1).result # View(1).forest
    /\ Reach(mem, runs[1].result) \cap Reach(mem, runs[1].extraction_result)
          \subseteq {a \in 1..Len(mem) : mem[a] = List(<<Str("x")>>)}


=============================================================================
